---- MODULE Spec2Model ----
(***************************************************************************)
(* A model of the TTCan rating scraper (src/backend/scrapping.py):         *)
(* row extraction and validation, de-duplication, the retrying fetcher,    *)
(* the batched sheet upload with its two retry levels, and the page-by-    *)
(* page harvest with checkpoints, crash and resume.                        *)
(*                                                                         *)
(* Text is a sequence of one-character strings, so that strip(), int()    *)
(* and the comparisons of the code are computed, not assumed.              *)
(* Python's None is the one-element tuple None.                            *)
(***************************************************************************)
EXTENDS Integers, Sequences, FiniteSets, TLC

VARIABLES
    \* ---- extraction of one listing page (scrape_players_page)
    ex_status,      \* what the listing fetch gave: "ok", "no_table", "fetch_error"
    ex_rows,        \* the <tr> rows of the result table, header first
    ex_out,         \* the list scrape_players_page returned
    ex_pc,          \* "start" | "done"
    \* ---- deduplicate_players applied once and twice
    dd_in,          \* the input list
    dd_once,        \* deduplicate_players(dd_in)
    dd_twice,       \* deduplicate_players(dd_once)
    dd_pc,          \* "start" | "once" | "twice"
    \* ---- make_request_with_retries
    rq_env,         \* what the transport does on the 1st, 2nd, ... GET
    rq_attempt,     \* the loop variable `attempt`
    rq_pc,          \* "get" | "sleep" | "returned" | "raised"
    rq_calls,       \* number of requests.get calls made
    rq_sleeps,      \* the time.sleep durations, in order
    rq_result,      \* the response returned or the exception raised
    \* ---- write_players_to_sheet / write_to_sheet_with_retry
    sk_fn,          \* the writer called: "players" | "history"
    sk_env,         \* how the worksheet behaves during this upload
    sk_rows,        \* the rows to upload
    sk_B,           \* ScraperConfig.BATCH_SIZE
    sk_pc,          \* position in the function
    sk_session,     \* session_attempt
    sk_batch,       \* batch_idx
    sk_battempt,    \* batch_attempt
    sk_err,         \* the exception being handled, or NoError
    sk_dest,        \* the rows the worksheet holds
    sk_calls,       \* how many clear / append_row / append_rows calls were made
    sk_sess,        \* per session attempt: append_rows calls made on its first batch
    sk_last,        \* the most recent call on the worksheet
    sk_result,      \* "none" | "True" | "False" | "raised"
    \* ---- the harvest: __main__, scrape_all_ttcan_players,
    \*      scrape_all_players_by_gender, the files of the session
    hv_N,           \* upstream: pages 1..hv_N hold players, later ones none
    hv_M,           \* upstream: the first player of page p is number (p-1) % hv_M
    hv_pc,          \* position of the running process, or why none runs
    hv_mode,        \* "fresh" | "resume": the branch __main__ took
    hv_session_id,  \* session_id of the running process
    hv_resume_from, \* resume_from_page
    hv_page,        \* page
    hv_all_players, \* all_players of scrape_all_players_by_gender
    hv_players,     \* players of __main__
    hv_files,       \* the files on disk: file name -> content
    hv_ckpts,       \* last_page of each save_progress_state call of this scrape
    hv_handed,      \* the lists given to write_players_to_sheet so far
    hv_runs,        \* processes started so far (the clock session ids come from)
    hv_crashes,     \* processes killed so far
    hv_exit,        \* exit status of the last process to end: "none" | 0 | 1
    hv_faults,      \* failures the environment has injected so far
    hv_status,      \* how the latest listing fetch of the process went
    hv_raised,      \* the page the loop was on when it last raised, 0 if none
    hv_done,        \* page -> its players as they were appended to all_players
    \* ---- the upload tried again by a later process (--use-cache)
    up_run,         \* which process is uploading: 1 the first, 2 the retry, ...
    up_sent,        \* batches the worksheet held when the previous upload failed
    up_upload_state, \* "upload_state" of the progress file of the session
    \* ---- the detail fetch of one page (fetch_multiple_players_data)
    dt_items,       \* players_with_links, with what each detail page does
    dt_fetch_history, \* fetch_history
    dt_workers,     \* max_workers of the pool
    dt_page,        \* page of the loop that made the call
    dt_pc,          \* position of the calling thread
    dt_running,     \* items a worker is running fetch_single_player for
    dt_finished,    \* items whose future is done
    dt_collected,   \* items the as_completed loop has handled
    dt_age_results, \* age_results
    dt_all_history, \* all_history
    dt_ckpt,        \* whether a checkpoint covering the page was written
    dt_page_players, \* page_players, the records of the submitted items
    dt_fetches,     \* how many times fetch_single_player was started, per item
    \* ---- __main__ with the rating history
    mn_pc,          \* position of the process, or why none runs
    mn_flags,       \* fetch_history, use_cache, resume as they stand at line 978
    mn_session_id,  \* session_id (0 for None)
    mn_players,     \* players
    mn_history,     \* history
    mn_files,       \* the files on disk: file name -> content
    mn_exit,        \* exit status of the last process to end, -1 before that
    mn_runs,        \* processes started so far
    mn_failed,      \* what failed in the process: "scrape", "players", "history"
    mn_uploaded,    \* the sessions whose players / history a sheet has received
    mn_deleted,     \* the names of the files removed so far
    \* ---- the page loop alone (scrape_all_players_by_gender without a session)
    pg_upstream,    \* how many valid records each page of the site holds
    pg_max_pages,   \* max_pages: <<>> for None, <<n>> for the integer n
    pg_resume_from_page, \* resume_from_page
    pg_page,        \* page
    pg_all_players, \* all_players
    pg_fetched,     \* the calls of scrape_players_page so far: page and records returned
    pg_pc,          \* "loop" | "break" | "DONE" | "raised"
    pg_result,      \* the players returned
    \* ---- a session scraped with --history, by one process or by several
    hs_N,           \* upstream: pages 1..hs_N hold a player, later ones none
    hs_pc,          \* position of the process, or why none runs
    hs_mode,        \* "fresh" | "resume" | "none"
    hs_page,        \* page
    hs_all_players, \* all_players of the loop
    hs_all_history, \* all_history of the loop
    hs_players,     \* players of __main__
    hs_history,     \* history of __main__
    hs_files,       \* the files of the session: kind -> content
    hs_handed,      \* the uploads of history: the rows, with the players then
    hs_runs,        \* processes started so far
    \* ---- the rating history read off one table of a detail page
    he_rows,        \* the rows of the table, each the texts of its cells
    he_pc,          \* "start" | "done"
    he_out,         \* what extract_rating_history_from_table gave
    \* ---- handle_google_api_error on the text of an exception
    ec_error,       \* str(error), a sequence of characters
    ec_pc,          \* "call" | "done"
    ec_result,      \* what handle_google_api_error returned
    \* ---- extract_age_from_text
    ag_text,        \* page_text, a sequence of characters
    ag_now,         \* datetime.now(): [year, month, day]
    ag_pc,          \* "call" | "done"
    ag_match,       \* the pattern and the group the returned age was made from
    ag_result       \* the age returned, or None

agVars == <<ag_text, ag_now, ag_pc, ag_match, ag_result>>
ecVars == <<ec_error, ec_pc, ec_result>>
heVars == <<he_rows, he_pc, he_out>>
hsVars == <<hs_N, hs_pc, hs_mode, hs_page, hs_all_players, hs_all_history,
            hs_players, hs_history, hs_files, hs_handed, hs_runs>>
pgVars == <<pg_upstream, pg_max_pages, pg_resume_from_page, pg_page,
            pg_all_players, pg_fetched, pg_pc, pg_result>>
exVars == <<ex_status, ex_rows, ex_out, ex_pc>>
ddVars == <<dd_in, dd_once, dd_twice, dd_pc>>
rqVars == <<rq_env, rq_attempt, rq_pc, rq_calls, rq_sleeps, rq_result>>
hvVars == <<hv_N, hv_M, hv_pc, hv_mode, hv_session_id, hv_resume_from, hv_page,
            hv_all_players, hv_players, hv_files, hv_ckpts, hv_handed,
            hv_runs, hv_crashes, hv_exit, hv_faults, hv_status, hv_raised,
            hv_done>>
dtVars == <<dt_fetches, dt_page_players, dt_items, dt_fetch_history, dt_workers, dt_page, dt_pc, dt_running,
            dt_finished, dt_collected, dt_age_results, dt_all_history, dt_ckpt>>
mnVars == <<mn_pc, mn_flags, mn_session_id, mn_players, mn_history, mn_files,
            mn_exit, mn_runs, mn_failed, mn_uploaded, mn_deleted>>
upVars == <<up_run, up_sent, up_upload_state>>
skVars == <<sk_fn, sk_env, sk_rows, sk_B, sk_pc, sk_session, sk_batch, sk_battempt, sk_err,
            sk_dest, sk_calls, sk_sess, sk_last, sk_result>>

None == <<"<None>">>

Min(a, b) == IF a < b THEN a ELSE b

RECURSIVE Pow2(_)
Pow2(n) == IF n = 0 THEN 1 ELSE 2 * Pow2(n - 1)

\* All sequences over S of length at most n.
SeqsUpTo(S, n) == UNION {[1..k -> S] : k \in 0..n}

(***************************************************************************)
(* Text: str.strip() and int()                                             *)
(***************************************************************************)
RECURSIVE lstrip(_)
lstrip(s) == IF s # <<>> /\ Head(s) = " " THEN lstrip(Tail(s)) ELSE s

RECURSIVE rstrip(_)
rstrip(s) ==
    IF s # <<>> /\ s[Len(s)] = " " THEN rstrip(SubSeq(s, 1, Len(s) - 1)) ELSE s

strip(s) == rstrip(lstrip(s))

Digits == {"0", "1", "2", "3", "4", "5", "6", "7", "8", "9"}

DigitVal(c) ==
    CASE c = "0" -> 0 [] c = "1" -> 1 [] c = "2" -> 2 [] c = "3" -> 3
      [] c = "4" -> 4 [] c = "5" -> 5 [] c = "6" -> 6 [] c = "7" -> 7
      [] c = "8" -> 8 [] c = "9" -> 9

isdigit(s) == s # <<>> /\ \A i \in 1..Len(s) : s[i] \in Digits

RECURSIVE DecimalValue(_)
DecimalValue(s) ==
    IF s = <<>> THEN 0
    ELSE 10 * DecimalValue(SubSeq(s, 1, Len(s) - 1)) + DigitVal(s[Len(s)])

\* int(text): surrounding blanks dropped, an optional sign, then digits.
\* IntParses is "no ValueError"; IntValue is the number.
IntBody(s) ==
    LET t == strip(s)
    IN  IF t # <<>> /\ Head(t) \in {"-", "+"} THEN Tail(t) ELSE t

IntParses(s) == isdigit(IntBody(s))

IntValue(s) ==
    LET t == strip(s)
    IN  IF t # <<>> /\ Head(t) = "-" THEN 0 - DecimalValue(IntBody(s))
        ELSE DecimalValue(IntBody(s))

(***************************************************************************)
(* Constants of the program                                                *)
(***************************************************************************)
MAX_RETRIES == 3
MAX_RATING == 5000
REQUIRED_FIELDS == {"Name", "Province", "Rating", "Period", "Last Played"}

(***************************************************************************)
(* Extraction: validate_player_data, parse_player_row, scrape_players_page *)
(* A row is the sequence of its <td> cells; a cell is its text and the     *)
(* href of the <a> inside it (None when it has none).                      *)
(***************************************************************************)
Cell(text, href) == [text |-> text, href |-> href]

get_text(cell) == strip(cell.text)

validate_player_data(player) ==
    /\ \A field \in REQUIRED_FIELDS :
          field \in DOMAIN player /\ strip(player[field]) # <<>>
    /\ "Gender" \in DOMAIN player
    /\ IntParses(player["Rating"])

\* The dict parse_player_row builds from the cells (cols[1] .. cols[6]).
player_of_row(cols) ==
    ("Name" :> get_text(cols[2])) @@ ("Province" :> get_text(cols[3])) @@
    ("Gender" :> get_text(cols[4])) @@ ("Rating" :> get_text(cols[5])) @@
    ("Period" :> get_text(cols[6])) @@ ("Last Played" :> get_text(cols[7])) @@
    ("Age" :> <<>>) @@
    ("PlayerLink" :> IF cols[2].href # None /\ cols[2].href # <<>>
                     THEN cols[2].href ELSE None)

parse_player_row(cols) ==
    IF Len(cols) < 7 THEN None
    ELSE IF validate_player_data(player_of_row(cols)) THEN player_of_row(cols)
    ELSE None

RECURSIVE parse_rows(_)
parse_rows(rows) ==
    IF rows = <<>> THEN <<>>
    ELSE LET player == parse_player_row(Head(rows))
         IN  IF player # None THEN <<player>> \o parse_rows(Tail(rows))
             ELSE parse_rows(Tail(rows))

\* status is what make_request_with_retries and soup.find gave.
scrape_players_page(status, rows) ==
    IF status = "fetch_error" THEN <<>>
    ELSE IF status = "no_table" THEN <<>>
    ELSE IF Len(rows) <= 1 THEN <<>>
    ELSE parse_rows(Tail(rows))

(***************************************************************************)
(* De-duplication                                                          *)
(***************************************************************************)
player_key(player) == <<player["Name"], player["Rating"], player["Province"]>>

RECURSIVE dedup_adjacent(_, _, _)
dedup_adjacent(players, seen_players, unique_players) ==
    IF players = <<>> THEN unique_players
    ELSE IF player_key(Head(players)) \notin seen_players
         THEN dedup_adjacent(Tail(players), {player_key(Head(players))},
                             Append(unique_players, Head(players)))
         ELSE dedup_adjacent(Tail(players), seen_players, unique_players)

RECURSIVE dedup_loop(_, _, _)
dedup_loop(players, seen_players, unique_players) ==
    IF players = <<>> THEN unique_players
    ELSE IF player_key(Head(players)) \notin seen_players
         THEN dedup_loop(Tail(players),
                         seen_players \cup {player_key(Head(players))},
                         Append(unique_players, Head(players)))
         ELSE dedup_loop(Tail(players), seen_players, unique_players)

deduplicate_players_adjacent(players) == dedup_adjacent(players, {}, <<>>)

RECURSIVE deduplicate_players_keep_last(_)
deduplicate_players_keep_last(players) ==
    IF players = <<>> THEN <<>>
    ELSE IF \E i \in 2..Len(players) :
                player_key(players[i]) = player_key(Head(players))
         THEN deduplicate_players_keep_last(Tail(players))
         ELSE <<Head(players)>> \o deduplicate_players_keep_last(Tail(players))

deduplicate_players(players) == dedup_loop(players, {}, <<>>)

(***************************************************************************)
(* The listing pages the extraction is run on                              *)
(***************************************************************************)
MaxRatingLen == 4
RatingAlphabet == {"0", "5", "x", "-"}
RatingTexts == SeqsUpTo(RatingAlphabet, MaxRatingLen)

\* Which required cell of a row is blank, if any.
Blanks == {"none", "Name", "Name blank", "Province", "Period", "Last Played"}

CellText(field, blank) ==
    IF blank = field THEN <<>>
    ELSE IF field = "Name" /\ blank = "Name blank" THEN <<" ">>
    ELSE IF field = "Name" THEN <<" ", "A", " ">>
    ELSE IF field = "Province" THEN <<"O">>
    ELSE IF field = "Period" THEN <<"4">>
    ELSE <<"J">>

\* The seven cells of a well-formed listing row.
ListingRow(name, province, gender, rating, period, last_played, href) ==
    << Cell(<<"1">>, None), Cell(name, href), Cell(province, None),
       Cell(gender, None), Cell(rating, None), Cell(period, None),
       Cell(last_played, None) >>

MakeRow(ncols, blank, gender, rating, href) ==
    SubSeq(<< Cell(<<"1">>, None),
              Cell(CellText("Name", blank), href),
              Cell(CellText("Province", blank), None),
              Cell(gender, None),
              Cell(rating, None),
              Cell(CellText("Period", blank), None),
              Cell(CellText("Last Played", blank), None),
              Cell(<<>>, None) >>, 1, ncols)

ColumnCounts == {6, 7, 8}

HeaderRow == <<Cell(<<"N">>, None)>>

\* A footer row of 4 cells and a row that is valid.
FooterRow == MakeRow(4, "none", <<"F">>, <<"5">>, None)
ValidRow == MakeRow(7, "none", <<"M">>, <<"5", "5">>, <<"q">>)

\* The table of a listing page around one row r: alone, with a plain row
\* before or after it, or after a valid row and a footer row.
PageShapes ==
    {"alone", "footer first", "footer last", "valid first", "valid last",
     "valid and footer first"}

PageRows(shape, r) ==
    CASE shape = "alone" -> <<HeaderRow, r>>
      [] shape = "footer first" -> <<HeaderRow, FooterRow, r>>
      [] shape = "footer last" -> <<HeaderRow, r, FooterRow>>
      [] shape = "valid first" -> <<HeaderRow, ValidRow, r>>
      [] shape = "valid last" -> <<HeaderRow, r, ValidRow>>
      [] shape = "valid and footer first" ->
            <<HeaderRow, ValidRow, FooterRow, r>>

ExIdle == ex_status = "ok" /\ ex_rows = <<>> /\ ex_out = <<>> /\ ex_pc = "idle"

ExInit ==
    /\ \/ /\ ex_status = "ok"
          /\ \E shape \in PageShapes, n \in ColumnCounts, b \in Blanks,
                g \in {<<>>, <<"F">>}, r \in RatingTexts, h \in {None, <<"p">>} :
                ex_rows = PageRows(shape, MakeRow(n, b, g, r, h))
       \/ ex_status = "ok" /\ ex_rows \in {<<>>, <<HeaderRow>>}
       \/ ex_status \in {"no_table", "fetch_error"} /\ ex_rows = <<>>
    /\ ex_out = <<>>
    /\ ex_pc = "start"

ExScrape ==
    /\ ex_pc = "start"
    /\ ex_out' = scrape_players_page(ex_status, ex_rows)
    /\ ex_pc' = "done"
    /\ UNCHANGED <<ex_status, ex_rows>>

(***************************************************************************)
(* The lists de-duplication is run on                                      *)
(***************************************************************************)
MaxDedupLen == 3

DedupPlayers ==
    {("Name" :> n) @@ ("Rating" :> r) @@ ("Province" :> p) @@ ("Age" :> a) :
        n \in {<<"A">>, <<"B">>}, r \in {<<"1">>, <<"2">>},
        p \in {<<"O">>}, a \in {<<>>, <<"9">>}}

DdIdle == dd_in = <<>> /\ dd_once = <<>> /\ dd_twice = <<>> /\ dd_pc = "idle"

DdInit ==
    /\ dd_in \in SeqsUpTo(DedupPlayers, MaxDedupLen)
    /\ dd_once = <<>>
    /\ dd_twice = <<>>
    /\ dd_pc = "start"

DdOnce ==
    /\ dd_pc = "start"
    /\ dd_once' = deduplicate_players(dd_in)
    /\ dd_pc' = "once"
    /\ UNCHANGED <<dd_in, dd_twice>>

DdTwice ==
    /\ dd_pc = "once"
    /\ dd_twice' = deduplicate_players(dd_once)
    /\ dd_pc' = "twice"
    /\ UNCHANGED <<dd_in, dd_once>>

(***************************************************************************)
(* make_request_with_retries                                               *)
(* rq_env[i] is what the i-th requests.get / raise_for_status does: "ok",  *)
(* a requests.exceptions.RequestException ("Timeout", "HTTPError"), or an  *)
(* exception of another class ("ValueError").                              *)
(***************************************************************************)
RequestExceptions == {"Timeout", "HTTPError"}
TransportOutcomes == {"ok", "ValueError"} \cup RequestExceptions

is_last_attempt_never(attempt) == attempt = MAX_RETRIES

is_last_attempt(attempt) == attempt = MAX_RETRIES - 1

backoff_from_two(attempt) == Pow2(attempt + 1)

\* The argument of time.sleep: 2 ** attempt.
backoff(attempt) == Pow2(attempt)

RqIdle ==
    /\ rq_env = <<>> /\ rq_attempt = 0 /\ rq_pc = "idle"
    /\ rq_calls = 0 /\ rq_sleeps = <<>> /\ rq_result = None

RqInit ==
    /\ rq_env \in [1..MAX_RETRIES -> TransportOutcomes]
    /\ rq_attempt = 0
    /\ rq_pc = "get"
    /\ rq_calls = 0
    /\ rq_sleeps = <<>>
    /\ rq_result = None

\* One pass through the try block: the GET, then return, raise or go to sleep.
RqGet ==
    /\ rq_pc = "get"
    /\ rq_calls' = rq_calls + 1
    /\ LET outcome == rq_env[rq_calls + 1]
       IN  IF outcome = "ok"
           THEN rq_pc' = "returned" /\ rq_result' = <<"response", rq_calls + 1>>
           ELSE IF outcome \in RequestExceptions /\ ~is_last_attempt(rq_attempt)
           THEN rq_pc' = "sleep" /\ rq_result' = rq_result
           ELSE rq_pc' = "raised" /\ rq_result' = <<outcome, rq_calls + 1>>
    /\ UNCHANGED <<rq_env, rq_attempt, rq_sleeps>>

\* time.sleep(2 ** attempt), then the next iteration of the for loop; a loop
\* that runs out falls off the end of the function, which returns None.
RqSleep ==
    /\ rq_pc = "sleep"
    /\ rq_sleeps' = Append(rq_sleeps, backoff(rq_attempt))
    /\ rq_attempt' = rq_attempt + 1
    /\ IF rq_attempt + 1 < MAX_RETRIES
       THEN rq_pc' = "get" /\ rq_result' = rq_result
       ELSE rq_pc' = "returned" /\ rq_result' = None
    /\ UNCHANGED <<rq_env, rq_calls>>

(***************************************************************************)
(* The sheet upload: handle_google_api_error, write_to_sheet_with_retry,   *)
(* write_players_to_sheet.                                                 *)
(* An exception is the one-element tuple of its text, and a text is the    *)
(* set of the listed phrases that occur in str(error).lower() ("boom" is a *)
(* phrase of neither list). NoError is "no exception".                     *)
(***************************************************************************)
max_retries_two == 3 - 1
max_retries == 3
batch_max_retries_three == 2 + 1
batch_max_retries == 2

retryable_errors ==
    {"502", "503", "504", "server error", "temporarily unavailable",
     "rate limit", "quota exceeded", "timeout", "connection error",
     "internal error", "backend error", "that's an error"}

non_retryable ==
    {"authentication", "unauthorized", "401", "403",
     "not found", "404", "permission denied"}

NoError == <<>>

handle_google_api_error_retryable_first(error) ==
    IF error[1] \cap retryable_errors # {} THEN TRUE ELSE FALSE

handle_google_api_error_unknown_retryable(error) ==
    error[1] \cap non_retryable = {}

handle_google_api_error(error) ==
    IF error[1] \cap non_retryable # {} THEN FALSE
    ELSE error[1] \cap retryable_errors # {}

total_batches_floor(rows, B) == Len(rows) \div B

total_batches(rows, B) == (Len(rows) + B - 1) \div B

\* rows[start_idx:end_idx] of batch batch_idx
batch_of(rows, B, batch_idx) ==
    SubSeq(rows, batch_idx * B + 1, Min(batch_idx * B + B, Len(rows)))

HEADER == "header"

MaxRows == 4
MaxBatchSize == 2

ErrorTexts == {{"503"}, {"403"}, {"503", "403"}, {"boom"}}

\* The worksheet of an upload: "any" may fail any call with any error,
\* "reliable" never fails, "appends_fail" accepts clear and append_row and
\* fails every append_rows with a retryable error.
SinkBehaviours == {"any", "reliable", "appends_fail"}

\* The exceptions a call may raise under the worksheet's behaviour.
Failures(op) ==
    IF sk_env = "any" THEN {<<t>> : t \in ErrorTexts}
    ELSE IF sk_env = "appends_fail" /\ op = "append_rows" THEN {<<{"503"}>>}
    ELSE {}

MaySucceed(op) == ~(sk_env = "appends_fail" /\ op = "append_rows")

Called(op, arg, error) == [op |-> op, arg |-> arg, error |-> error]

SkIdle ==
    /\ sk_fn = "players"
    /\ sk_env = "reliable" /\ sk_rows = <<>> /\ sk_B = 1 /\ sk_pc = "idle"
    /\ sk_session = 0 /\ sk_batch = 0 /\ sk_battempt = 0 /\ sk_err = NoError
    /\ sk_dest = <<>> /\ sk_calls = [clear |-> 0, header |-> 0, append |-> 0]
    /\ sk_sess = <<>> /\ sk_last = Called("none", <<>>, NoError)
    /\ sk_result = "none"

SkInit ==
    /\ sk_fn \in {"players", "history"}
    /\ sk_env \in SinkBehaviours
    /\ sk_rows \in {[i \in 1..n |-> i] : n \in 0..MaxRows}
    /\ sk_B \in 1..MaxBatchSize
    /\ sk_pc = "call"
    /\ sk_session = 0
    /\ sk_batch = 0
    /\ sk_battempt = 0
    /\ sk_err = NoError
    /\ sk_dest = <<"stale">>
    /\ sk_calls = [clear |-> 0, header |-> 0, append |-> 0]
    /\ sk_sess = <<>>
    /\ sk_last = Called("none", <<>>, NoError)
    /\ sk_result = "none"

nothing_to_write_never(data) == FALSE

\* `if not players:` and `if not history_data:`, the first statement of the
\* two writers.
nothing_to_write(data) == data = <<>>

\* write_players_to_sheet and write_history_to_sheet: an empty list is refused
\* before the sheet is touched; otherwise the rows go to
\* write_to_sheet_with_retry, whose outcome sk_result records. The worksheet
\* is the one the writer holds: the module's sheet for the players, the
\* RatingHistory worksheet, once opened, for the history.
SkCall ==
    /\ sk_pc = "call"
    /\ IF nothing_to_write(sk_rows)
       THEN sk_pc' = "done" /\ sk_result' = "False"
       ELSE sk_pc' = "clear" /\ sk_result' = sk_result
    /\ UNCHANGED <<sk_fn, sk_env, sk_rows, sk_B, sk_session, sk_batch, sk_battempt,
                   sk_err, sk_dest, sk_calls, sk_sess, sk_last>>

\* sheet_obj.clear(), before the loop and in the except handler: neither call
\* is inside a try, so an exception leaves the function.
SkClear ==
    /\ sk_pc = "clear"
    /\ sk_calls' = [sk_calls EXCEPT !.clear = @ + 1]
    /\ \/ /\ MaySucceed("clear")
          /\ sk_dest' = <<>>
          /\ sk_last' = Called("clear", <<>>, NoError)
          /\ sk_pc' = "header"
          /\ UNCHANGED <<sk_err, sk_result>>
       \/ \E e \in Failures("clear") :
          /\ sk_last' = Called("clear", <<>>, e)
          /\ sk_err' = e
          /\ sk_pc' = "done"
          /\ sk_result' = "raised"
          /\ UNCHANGED sk_dest
    /\ UNCHANGED <<sk_fn, sk_env, sk_rows, sk_B, sk_session, sk_batch, sk_battempt,
                   sk_sess>>

\* sheet_obj.append_row(header); the for loop of the session attempt and its
\* batch loop start after it.
SkHeader ==
    /\ sk_pc = "header"
    /\ sk_calls' = [sk_calls EXCEPT !.header = @ + 1]
    /\ \/ /\ MaySucceed("append_row")
          /\ sk_dest' = Append(sk_dest, HEADER)
          /\ sk_last' = Called("append_row", <<HEADER>>, NoError)
          /\ sk_pc' = "append"
          /\ sk_batch' = 0
          /\ sk_battempt' = 0
          /\ sk_sess' = Append(sk_sess, 0)
          /\ UNCHANGED <<sk_err, sk_result>>
       \/ \E e \in Failures("append_row") :
          /\ sk_last' = Called("append_row", <<HEADER>>, e)
          /\ sk_err' = e
          /\ sk_pc' = "done"
          /\ sk_result' = "raised"
          /\ UNCHANGED <<sk_dest, sk_batch, sk_battempt, sk_sess>>
    /\ UNCHANGED <<sk_fn, sk_env, sk_rows, sk_B, sk_session>>

\* One pass through the inner try: append_rows(batch), then the next batch,
\* return True, the batch retry, or the raise to the session handler.
SkAppend ==
    /\ sk_pc = "append"
    /\ sk_calls' = [sk_calls EXCEPT !.append = @ + 1]
    /\ sk_sess' = IF sk_batch = 0
                  THEN [sk_sess EXCEPT ![Len(sk_sess)] = @ + 1] ELSE sk_sess
    /\ LET batch == batch_of(sk_rows, sk_B, sk_batch)
       IN  \/ /\ MaySucceed("append_rows")
              /\ sk_dest' = sk_dest \o batch
              /\ sk_last' = Called("append_rows", batch, NoError)
              /\ sk_battempt' = 0
              /\ sk_batch' = sk_batch + 1
              /\ IF sk_batch + 1 < total_batches(sk_rows, sk_B)
                 THEN sk_pc' = "append" /\ sk_result' = sk_result
                 ELSE sk_pc' = "done" /\ sk_result' = "True"
              /\ UNCHANGED sk_err
           \/ \E e \in Failures("append_rows") :
              /\ sk_last' = Called("append_rows", batch, e)
              /\ sk_battempt' = sk_battempt + 1
              /\ IF handle_google_api_error(e)
                    /\ sk_battempt + 1 < batch_max_retries
                 THEN sk_pc' = "append" /\ sk_err' = sk_err
                 ELSE sk_pc' = "except" /\ sk_err' = e
              /\ UNCHANGED <<sk_dest, sk_batch, sk_result>>
    /\ UNCHANGED <<sk_fn, sk_env, sk_rows, sk_B, sk_session>>

\* The handler without lines 782-783: the next attempt appends to what is there.
SkExcept_no_clear ==
    /\ sk_pc = "except"
    /\ IF handle_google_api_error(sk_err) /\ sk_session < max_retries - 1
       THEN /\ sk_pc' = "append"
            /\ sk_session' = sk_session + 1
            /\ sk_err' = NoError
            /\ sk_batch' = 0
            /\ sk_battempt' = 0
            /\ sk_sess' = Append(sk_sess, 0)
            /\ sk_result' = sk_result
       ELSE /\ sk_pc' = "done"
            /\ sk_result' = "False"
            /\ UNCHANGED <<sk_session, sk_err, sk_batch, sk_battempt, sk_sess>>
    /\ UNCHANGED <<sk_fn, sk_env, sk_rows, sk_B, sk_dest, sk_calls, sk_last>>

\* The session-level except: back off and start over with clear and header,
\* or return False.
SkExcept ==
    /\ sk_pc = "except"
    /\ IF handle_google_api_error(sk_err) /\ sk_session < max_retries - 1
       THEN /\ sk_pc' = "clear"
            /\ sk_session' = sk_session + 1
            /\ sk_err' = NoError
            /\ sk_result' = sk_result
       ELSE /\ sk_pc' = "done"
            /\ sk_result' = "False"
            /\ UNCHANGED <<sk_session, sk_err>>
    /\ UNCHANGED <<sk_fn, sk_env, sk_rows, sk_B, sk_batch, sk_battempt, sk_dest,
                   sk_calls, sk_sess, sk_last>>

(***************************************************************************)
(* The upload tried again: after write_players_to_sheet returned False the *)
(* process exits 1 with the players file kept; a later process started     *)
(* with --use-cache loads that file and calls write_players_to_sheet on    *)
(* the same list and the same worksheet. The progress file is written by   *)
(* the scrape only, with no upload_state argument.                         *)
(***************************************************************************)
MaxUploadRuns == 2

\* progress_data["upload_state"] = upload_state or {}
no_upload_state == <<>>

UpIdle == up_run = 0 /\ up_sent = 0 /\ up_upload_state = no_upload_state

UpInit == up_run = 1 /\ up_sent = 0 /\ up_upload_state = no_upload_state

\* __main__ --use-cache after a failed upload: players from the players file,
\* then write_players_to_sheet(players, session_id=session_id).
UpRetry ==
    /\ sk_pc = "done"
    /\ sk_result = "False"
    /\ sk_rows # <<>>
    /\ up_run < MaxUploadRuns
    /\ up_run' = up_run + 1
    /\ up_sent' = sk_batch
    /\ sk_pc' = "call"
    /\ sk_session' = 0
    /\ sk_batch' = 0
    /\ sk_battempt' = 0
    /\ sk_err' = NoError
    /\ sk_calls' = [clear |-> 0, header |-> 0, append |-> 0]
    /\ sk_sess' = <<>>
    /\ sk_last' = Called("none", <<>>, NoError)
    /\ sk_result' = "none"
    /\ UNCHANGED <<sk_fn, sk_env, sk_rows, sk_B, sk_dest, up_upload_state>>

(***************************************************************************)
(* The harvest: scrape_all_players_by_gender under scrape_all_ttcan_players *)
(* and __main__, with the progress and snapshot files of the session.      *)
(* A process may be killed between any two steps; what is on disk stays.   *)
(* The first process is a fresh run, a process started after a kill is     *)
(* started with --resume.                                                  *)
(***************************************************************************)
save_progress_every == 5

MaxPages == 10
MaxKeys == 2
MaxCrashes == 1
MaxFaults == 1
MaxRuns == 2

PlayerNames == <<<<"A">>, <<"B">>, <<"C">>, <<"D">>>>

\* str(n) for n >= 0
RECURSIVE DecimalText(_)
DecimalText(n) ==
    LET d == CHOOSE c \in Digits : DigitVal(c) = n % 10
    IN  IF n < 10 THEN <<d>> ELSE Append(DecimalText(n \div 10), d)

\* The table the upstream serves as page p: the header, two players and the
\* pagination footer; the header alone past the last page. The first player
\* changes with the page, the second is listed again on every page. A
\* player's Period cell tells the page, and its name cell links to a detail
\* page.
UpstreamRows(p) ==
    IF p <= hv_N
    THEN << HeaderRow,
            ListingRow(PlayerNames[((p - 1) % hv_M) + 1], <<"O">>, <<"F">>,
                       <<"5", "0">>, DecimalText(p), <<"J">>, <<"q">>),
            ListingRow(PlayerNames[1], <<"Q">>, <<"F">>,
                       <<"5", "0">>, DecimalText(p), <<"J">>, <<"q">>),
            FooterRow >>
    ELSE << HeaderRow >>

\* players_with_links of the loop body (lines 422-426)
players_with_links(page_players) ==
    LET linked == SelectSeq(page_players,
                            LAMBDA player : player["PlayerLink"] # None)
    IN  [i \in 1..Len(linked) |-> <<linked[i]["Name"], linked[i]["PlayerLink"]>>]

\* player["Age"] = age_results[player["Name"]] or "" (lines 439-441)
update_ages(page_players, age_results) ==
    [i \in 1..Len(page_players) |->
        IF page_players[i]["Name"] \in DOMAIN age_results
        THEN [page_players[i] EXCEPT
                 !["Age"] = IF age_results[page_players[i]["Name"]] = None
                            THEN <<>>
                            ELSE age_results[page_players[i]["Name"]]]
        ELSE page_players[i]]

\* Every detail page of the upstream of the harvest gives the age 30.
UpstreamAges(links) ==
    [name \in {links[i][1] : i \in 1..Len(links)} |-> <<"3", "0">>]

\* The players of a page as they are appended to all_players (lines 415-443).
EnrichedPage(page_players) ==
    IF players_with_links(page_players) # <<>>
    THEN update_ages(page_players, UpstreamAges(players_with_links(page_players)))
    ELSE page_players

\* all_players when the detail fetch of a page raises: the page is appended
\* only after its ages are set (line 443).
all_players_at_raise_early(all_players, page_players) ==
    all_players \o page_players

all_players_at_raise(all_players, page_players) == all_players

\* What a pass of the loop may meet: the listing fetch may fail (the fetcher
\* out of retries, or the parse raising), and the worker pool of the detail
\* fetch may fail to start, which raises out of fetch_multiple_players_data.
PageOutcomes == {"ok", "fetch_error", "detail_raise"}

\* File names: ttcan_progress_<session>.json, ttcan_players_<session>.json
ProgressFile(session_id) == <<"progress", session_id>>
PlayersFile(session_id) == <<"players", session_id>>

WriteFile(files, name, content) ==
    [n \in DOMAIN files \cup {name} |-> IF n = name THEN content ELSE files[n]]

RemoveFiles(files, names) == [n \in DOMAIN files \ names |-> files[n]]

\* max() of the file names of a kind: the greatest session id.
LatestFile(files, kind) ==
    LET names == {n \in DOMAIN files : n[1] = kind}
    IN  IF names = {} THEN None
        ELSE CHOOSE n \in names : \A m \in names : m[2] <= n[2]

progress_data(session_id, last_page, completed_players) ==
    [session_id |-> session_id, last_completed_page |-> last_page,
     players_count |-> Len(completed_players)]

save_progress_state(files, session_id, last_page, completed_players) ==
    WriteFile(files, ProgressFile(session_id),
              progress_data(session_id, last_page, completed_players))

\* Without history only the players file is written.
update_temp_files_incremental(files, players, session_id) ==
    WriteFile(files, PlayersFile(session_id), players)

cleanup_session_files(files, session_id) ==
    RemoveFiles(files, {n \in DOMAIN files : n[2] = session_id})

last_page_at_exit_off(page) == page

\* The page the checkpoint after the loop records (line 469).
last_page_at_exit(page) == page - 1

last_page_at_raise_off(page) == page

\* The page the checkpoint of the except handler records (line 461).
last_page_at_raise(page) == page - 1

HvIdle ==
    /\ hv_N = 0 /\ hv_M = 1 /\ hv_pc = "idle" /\ hv_mode = "none"
    /\ hv_session_id = 0 /\ hv_resume_from = 1 /\ hv_page = 1
    /\ hv_all_players = <<>> /\ hv_players = <<>> /\ hv_files = <<>>
    /\ hv_ckpts = <<>> /\ hv_handed = <<>> /\ hv_runs = 0 /\ hv_crashes = 0
    /\ hv_exit = "none" /\ hv_faults = 0 /\ hv_status = "none"
    /\ hv_raised = 0 /\ hv_done = <<>>

HvInit ==
    /\ hv_N \in 0..MaxPages
    /\ hv_M \in 1..MaxKeys
    /\ hv_pc = "not_started"
    /\ hv_mode = "none"
    /\ hv_session_id = 0
    /\ hv_resume_from = 1
    /\ hv_page = 1
    /\ hv_all_players = <<>>
    /\ hv_players = <<>>
    /\ hv_files = <<>>
    /\ hv_ckpts = <<>>
    /\ hv_handed = <<>>
    /\ hv_runs = 0
    /\ hv_crashes = 0
    /\ hv_exit = "none"
    /\ hv_faults = 0
    /\ hv_status = "none"
    /\ hv_raised = 0
    /\ hv_done = <<>>

HvUpstream == <<hv_N, hv_M>>

\* __main__ without flags: a new session, scraped from page 1.
HvStartFresh ==
    /\ hv_pc = "not_started"
    /\ hv_runs' = hv_runs + 1
    /\ hv_mode' = "fresh"
    /\ hv_session_id' = hv_runs + 1
    /\ hv_resume_from' = 1
    /\ hv_page' = 1
    /\ hv_all_players' = <<>>
    /\ hv_players' = <<>>
    /\ hv_ckpts' = <<>>
    /\ hv_pc' = "loop"
    /\ UNCHANGED <<HvUpstream, hv_files, hv_handed, hv_crashes, hv_exit,
                   hv_faults, hv_status, hv_raised, hv_done>>

\* __main__ --resume, after a process was killed or exited 1: the latest
\* progress file gives the session and the page to go on from, the latest
\* players file of that session the players so far; with no progress file it
\* is a fresh run.
HvStartResume ==
    /\ hv_pc = "crashed" \/ (hv_pc = "exited" /\ hv_exit = 1)
    /\ hv_runs < MaxRuns
    /\ hv_runs' = hv_runs + 1
    /\ hv_all_players' = <<>>
    /\ hv_ckpts' = <<>>
    /\ hv_status' = "none"
    /\ hv_pc' = "loop"
    /\ LET progress_file == LatestFile(hv_files, "progress")
           players_temp_file == LatestFile(hv_files, "players")
       IN  IF progress_file # None
           THEN /\ hv_mode' = "resume"
                /\ hv_session_id' = hv_files[progress_file].session_id
                /\ hv_resume_from' =
                      hv_files[progress_file].last_completed_page + 1
                /\ hv_page' = hv_files[progress_file].last_completed_page + 1
                /\ hv_players' =
                      IF players_temp_file # None
                         /\ players_temp_file[2]
                              = hv_files[progress_file].session_id
                      THEN hv_files[players_temp_file] ELSE <<>>
           ELSE /\ hv_mode' = "fresh"
                /\ hv_session_id' = hv_runs + 1
                /\ hv_resume_from' = 1
                /\ hv_page' = 1
                /\ hv_players' = <<>>
    /\ UNCHANGED <<HvUpstream, hv_files, hv_handed, hv_crashes, hv_exit,
                   hv_faults, hv_raised, hv_done>>

\* One pass of the while loop up to the checkpoint test: the page is scraped
\* (scrape_players_page turns a failed fetch into an empty list); an empty
\* page ends the loop; otherwise the ages are fetched, which may raise into
\* the except handler, and the players are appended.
HvPage ==
    /\ hv_pc = "loop"
    /\ \E outcome \in PageOutcomes :
          LET page_players ==
                  scrape_players_page(
                      IF outcome = "fetch_error" THEN "fetch_error" ELSE "ok",
                      UpstreamRows(hv_page))
              links == players_with_links(page_players)
          IN  /\ outcome # "ok" => hv_faults < MaxFaults
              /\ outcome = "detail_raise" => links # <<>>
              /\ hv_faults' = IF outcome = "ok" THEN hv_faults ELSE hv_faults + 1
              /\ hv_status' = IF outcome = "fetch_error" THEN "fetch_error" ELSE "ok"
              /\ IF page_players = <<>>
                 THEN /\ hv_pc' = "final_progress"
                      /\ UNCHANGED <<hv_all_players, hv_page, hv_done>>
                 ELSE IF outcome = "detail_raise"
                 THEN /\ hv_pc' = "except_progress"
                      /\ hv_all_players' =
                            all_players_at_raise(hv_all_players, page_players)
                      /\ UNCHANGED <<hv_page, hv_done>>
                 ELSE /\ hv_all_players' =
                            hv_all_players \o EnrichedPage(page_players)
                      /\ hv_done' =
                            [p \in DOMAIN hv_done \cup {hv_page} |->
                                IF p = hv_page THEN EnrichedPage(page_players)
                                ELSE hv_done[p]]
                      /\ IF hv_page % save_progress_every = 0
                         THEN hv_pc' = "save_progress" /\ hv_page' = hv_page
                         ELSE hv_pc' = "loop" /\ hv_page' = hv_page + 1
    /\ UNCHANGED <<HvUpstream, hv_mode, hv_session_id, hv_resume_from,
                   hv_players, hv_files, hv_ckpts, hv_handed, hv_runs,
                   hv_crashes, hv_exit, hv_raised>>

\* save_progress_state(session_id, page, ...) of the periodic checkpoint
HvSaveProgress ==
    /\ hv_pc = "save_progress"
    /\ hv_files' =
          save_progress_state(hv_files, hv_session_id, hv_page, hv_all_players)
    /\ hv_ckpts' = Append(hv_ckpts, hv_page)
    /\ hv_pc' = "save_snapshot"
    /\ UNCHANGED <<HvUpstream, hv_mode, hv_session_id, hv_resume_from, hv_page,
                   hv_all_players, hv_players, hv_handed, hv_runs, hv_crashes,
                   hv_exit, hv_faults, hv_status, hv_raised, hv_done>>

\* update_temp_files_incremental of the periodic checkpoint, then page += 1
HvSaveSnapshot ==
    /\ hv_pc = "save_snapshot"
    /\ hv_files' =
          update_temp_files_incremental(hv_files, hv_all_players, hv_session_id)
    /\ hv_page' = hv_page + 1
    /\ hv_pc' = "loop"
    /\ UNCHANGED <<HvUpstream, hv_mode, hv_session_id, hv_resume_from,
                   hv_all_players, hv_players, hv_ckpts, hv_handed, hv_runs,
                   hv_crashes, hv_exit, hv_faults, hv_status, hv_raised,
                   hv_done>>

\* The except handler: save_progress_state(session_id, page - 1, ...)
HvExceptProgress ==
    /\ hv_pc = "except_progress"
    /\ hv_files' = save_progress_state(hv_files, hv_session_id,
                                       last_page_at_raise(hv_page), hv_all_players)
    /\ hv_ckpts' = Append(hv_ckpts, last_page_at_raise(hv_page))
    /\ hv_pc' = "except_snapshot"
    /\ UNCHANGED <<HvUpstream, hv_mode, hv_session_id, hv_resume_from, hv_page,
                   hv_all_players, hv_players, hv_handed, hv_runs, hv_crashes,
                   hv_exit, hv_faults, hv_status, hv_raised, hv_done>>

\* The except handler: update_temp_files_incremental, then raise e; nothing
\* up to __main__ handles it but the handlers that re-raise or exit 1.
HvExceptSnapshot ==
    /\ hv_pc = "except_snapshot"
    /\ hv_files' =
          update_temp_files_incremental(hv_files, hv_all_players, hv_session_id)
    /\ hv_raised' = hv_page
    /\ hv_pc' = "exited"
    /\ hv_exit' = 1
    /\ UNCHANGED <<HvUpstream, hv_mode, hv_session_id, hv_resume_from, hv_page,
                   hv_all_players, hv_players, hv_ckpts, hv_handed, hv_runs,
                   hv_crashes, hv_faults, hv_status, hv_done>>

\* save_progress_state(session_id, page - 1, ...) after the loop
HvFinalProgress ==
    /\ hv_pc = "final_progress"
    /\ hv_files' = save_progress_state(hv_files, hv_session_id,
                                       last_page_at_exit(hv_page), hv_all_players)
    /\ hv_ckpts' = Append(hv_ckpts, last_page_at_exit(hv_page))
    /\ hv_pc' = "final_snapshot"
    /\ UNCHANGED <<HvUpstream, hv_mode, hv_session_id, hv_resume_from, hv_page,
                   hv_all_players, hv_players, hv_handed, hv_runs, hv_crashes,
                   hv_exit, hv_faults, hv_status, hv_raised, hv_done>>

\* update_temp_files_incremental after the loop; the function returns.
HvFinalSnapshot ==
    /\ hv_pc = "final_snapshot"
    /\ hv_files' =
          update_temp_files_incremental(hv_files, hv_all_players, hv_session_id)
    /\ hv_pc' = "returned"
    /\ UNCHANGED <<HvUpstream, hv_mode, hv_session_id, hv_resume_from, hv_page,
                   hv_all_players, hv_players, hv_ckpts, hv_handed, hv_runs,
                   hv_crashes, hv_exit, hv_faults, hv_status, hv_raised,
                   hv_done>>

\* scrape_all_ttcan_players de-duplicates what the scrape returned; __main__
\* keeps it (fresh) or extends the loaded players with it (resume), saves the
\* players file, and goes on to the upload if there are players.
HvMerge ==
    /\ hv_pc = "returned"
    /\ LET unique_players == deduplicate_players(hv_all_players)
           players == IF hv_mode = "resume"
                      THEN hv_players \o unique_players ELSE unique_players
       IN  /\ hv_players' = players
           /\ hv_files' =
                 IF hv_mode = "resume" \/ players # <<>>
                 THEN WriteFile(hv_files, PlayersFile(hv_session_id), players)
                 ELSE hv_files
           /\ IF players # <<>>
              THEN hv_pc' = "upload" /\ hv_exit' = hv_exit
              ELSE hv_pc' = "exited" /\ hv_exit' = 0
    /\ hv_raised' = 0
    /\ UNCHANGED <<HvUpstream, hv_mode, hv_session_id, hv_resume_from, hv_page,
                   hv_all_players, hv_ckpts, hv_handed, hv_runs, hv_crashes,
                   hv_faults, hv_status, hv_done>>

\* write_players_to_sheet(players): on True the files of the session are
\* removed and the process exits 0, otherwise it exits 1 and the files stay.
HvUpload ==
    /\ hv_pc = "upload"
    /\ hv_handed' = Append(hv_handed, hv_players)
    /\ hv_pc' = "exited"
    /\ \E success \in BOOLEAN :
          IF success
          THEN /\ hv_files' = cleanup_session_files(hv_files, hv_session_id)
               /\ hv_exit' = 0
          ELSE /\ hv_files' = hv_files
               /\ hv_exit' = 1
    /\ UNCHANGED <<HvUpstream, hv_mode, hv_session_id, hv_resume_from, hv_page,
                   hv_all_players, hv_players, hv_ckpts, hv_runs, hv_crashes,
                   hv_faults, hv_status, hv_raised, hv_done>>

HvRunning ==
    hv_pc \in {"loop", "save_progress", "save_snapshot", "except_progress",
               "except_snapshot", "final_progress", "final_snapshot",
               "returned", "upload"}

\* The process is killed: its memory is gone, the files stay.
HvCrash ==
    /\ HvRunning
    /\ hv_crashes < MaxCrashes
    /\ hv_crashes' = hv_crashes + 1
    /\ hv_pc' = "crashed"
    /\ hv_mode' = "none"
    /\ hv_all_players' = <<>>
    /\ hv_players' = <<>>
    /\ hv_ckpts' = <<>>
    /\ hv_session_id' = 0
    /\ hv_resume_from' = 1
    /\ hv_page' = 1
    /\ hv_status' = "none"
    /\ hv_raised' = 0
    /\ UNCHANGED <<HvUpstream, hv_files, hv_handed, hv_runs, hv_exit,
                   hv_faults, hv_done>>

(***************************************************************************)
(* The detail fetch of one listing page: fetch_player_page_data run by the *)
(* workers of the pool of fetch_multiple_players_data, and what the loop   *)
(* of scrape_all_players_by_gender does with the page once it returned.    *)
(* An item is a submitted (name, link) with what its detail page does:     *)
(* "ok" (age and history found), "no_age" (history only), "fetch_fail"     *)
(* (the request or the age parse raises), "history_fail" (the age is       *)
(* found, the history parse raises).                                       *)
(***************************************************************************)
MaxItems == 2

\* Pool sizes tried (ScraperConfig.CONCURRENT_WORKERS is 20).
PoolSizes == {1, 2}

DetailOutcomes == {"ok", "no_age", "fetch_fail", "history_fail"}

DetailItems ==
    [name : {<<"A">>, <<"B">>}, outcome : DetailOutcomes]

\* The age and the history rows on the detail page of item i.
AgeOnPage(i) == <<"2", CHOOSE c \in Digits : DigitVal(c) = i>>
HistoryOnPage(items, i) ==
    << [PlayerName |-> items[i].name, Period |-> DecimalText(i)] >>

\* fetch_player_page_data: (age, rating_history) as they stand when the
\* function returns, from the try block or from its except clause.
fetch_player_page_data(items, i, fetch_history) ==
    CASE items[i].outcome = "fetch_fail" -> <<None, <<>>>>
      [] items[i].outcome = "no_age" ->
            <<None, IF fetch_history THEN HistoryOnPage(items, i) ELSE <<>>>>
      [] items[i].outcome = "history_fail" -> <<AgeOnPage(i), <<>>>>
      [] OTHER ->
            <<AgeOnPage(i),
              IF fetch_history THEN HistoryOnPage(items, i) ELSE <<>>>>

AllItems == 1..Len(dt_items)

\* The records of the listing page the items were taken from (line 422-426):
\* item i is the link of record i.
ListedPlayers(items) ==
    [i \in 1..Len(items) |->
        [Name |-> items[i].name, Age |-> <<>>, PlayerLink |-> DecimalText(i)]]

DtIdle ==
    /\ dt_items = <<>> /\ dt_fetch_history = FALSE /\ dt_workers = 1
    /\ dt_page = 1 /\ dt_pc = "idle" /\ dt_running = {} /\ dt_finished = {}
    /\ dt_collected = {} /\ dt_age_results = <<>> /\ dt_all_history = <<>>
    /\ dt_ckpt = FALSE /\ dt_page_players = <<>> /\ dt_fetches = <<>>

DtInit ==
    /\ \E n \in 1..MaxItems : dt_items \in [1..n -> DetailItems]
    /\ dt_fetch_history \in BOOLEAN
    /\ dt_workers \in PoolSizes
    /\ dt_page \in {4, 5}
    /\ dt_pc = "submit"
    /\ dt_running = {}
    /\ dt_finished = {}
    /\ dt_collected = {}
    /\ dt_age_results = <<>>
    /\ dt_all_history = <<>>
    /\ dt_ckpt = FALSE
    /\ dt_page_players = ListedPlayers(dt_items)
    /\ dt_fetches = [i \in 1..Len(dt_items) |-> 0]

\* executor.submit for every item; the futures wait for a free worker.
DtSubmit ==
    /\ dt_pc = "submit"
    /\ dt_pc' = "collect"
    /\ UNCHANGED <<dt_fetches, dt_page_players, dt_items, dt_fetch_history, dt_workers, dt_page, dt_running,
                   dt_finished, dt_collected, dt_age_results, dt_all_history,
                   dt_ckpt>>

\* A pool that starts a thread for every submitted item at once.
DtStart_unbounded ==
    /\ dt_pc = "collect"
    /\ \E i \in AllItems \ (dt_running \cup dt_finished) :
          /\ dt_running' = dt_running \cup {i}
          /\ dt_fetches' = [dt_fetches EXCEPT ![i] = @ + 1]
    /\ UNCHANGED <<dt_page_players, dt_items, dt_fetch_history, dt_workers, dt_page, dt_pc,
                   dt_finished, dt_collected, dt_age_results, dt_all_history,
                   dt_ckpt>>

\* A free worker takes a waiting item.
DtStart ==
    /\ dt_pc = "collect"
    /\ Cardinality(dt_running) < dt_workers
    /\ \E i \in AllItems \ (dt_running \cup dt_finished) :
          /\ dt_running' = dt_running \cup {i}
          /\ dt_fetches' = [dt_fetches EXCEPT ![i] = @ + 1]
    /\ UNCHANGED <<dt_page_players, dt_items, dt_fetch_history, dt_workers, dt_page, dt_pc,
                   dt_finished, dt_collected, dt_age_results, dt_all_history,
                   dt_ckpt>>

\* A worker that saves the checkpoint itself when its fetch is over.
DtFinish_saving ==
    /\ \E i \in dt_running :
          /\ dt_running' = dt_running \ {i}
          /\ dt_finished' = dt_finished \cup {i}
    /\ dt_ckpt' = TRUE
    /\ UNCHANGED <<dt_fetches, dt_page_players, dt_items, dt_fetch_history, dt_workers, dt_page, dt_pc,
                   dt_collected, dt_age_results, dt_all_history>>

\* fetch_single_player of an item returns: its future is done.
DtFinish ==
    /\ \E i \in dt_running :
          /\ dt_running' = dt_running \ {i}
          /\ dt_finished' = dt_finished \cup {i}
    /\ UNCHANGED <<dt_fetches, dt_page_players, dt_items, dt_fetch_history, dt_workers, dt_page, dt_pc,
                   dt_collected, dt_age_results, dt_all_history, dt_ckpt>>

\* One pass of the as_completed loop, on any future that is done.
DtCollect ==
    /\ dt_pc = "collect"
    /\ \E i \in dt_finished \ dt_collected :
          LET result == fetch_player_page_data(dt_items, i, dt_fetch_history)
              name == dt_items[i].name
          IN  /\ dt_age_results' =
                    [n \in DOMAIN dt_age_results \cup {name} |->
                        IF n = name THEN result[1] ELSE dt_age_results[n]]
              /\ dt_all_history' = dt_all_history \o result[2]
              /\ dt_collected' = dt_collected \cup {i}
    /\ UNCHANGED <<dt_fetches, dt_page_players, dt_items, dt_fetch_history, dt_workers, dt_page, dt_pc,
                   dt_running, dt_finished, dt_ckpt>>

\* Leaving without waiting for the futures.
DtReturn_no_wait ==
    /\ dt_pc = "collect"
    /\ dt_pc' = "returned"
    /\ UNCHANGED <<dt_fetches, dt_page_players, dt_items, dt_fetch_history, dt_workers, dt_page, dt_running,
                   dt_finished, dt_collected, dt_age_results, dt_all_history,
                   dt_ckpt>>

\* as_completed is exhausted when every future is done and was yielded; the
\* with block then shuts the pool down and the function returns.
DtReturn ==
    /\ dt_pc = "collect"
    /\ dt_collected = AllItems
    /\ dt_pc' = "returned"
    /\ UNCHANGED <<dt_fetches, dt_page_players, dt_items, dt_fetch_history, dt_workers, dt_page, dt_running,
                   dt_finished, dt_collected, dt_age_results, dt_all_history,
                   dt_ckpt>>

\* The loop body after the call: the ages are set and the players of the
\* page are appended to all_players (lines 438-443).
DtAccumulate ==
    /\ dt_pc = "returned"
    /\ dt_page_players' = update_ages(dt_page_players, dt_age_results)
    /\ dt_pc' = "accumulated"
    /\ UNCHANGED <<dt_fetches, dt_items, dt_fetch_history, dt_workers, dt_page, dt_running,
                   dt_finished, dt_collected, dt_age_results, dt_all_history,
                   dt_ckpt>>

\* The periodic checkpoint of the page, if it is due (lines 447-450).
DtCheckpoint ==
    /\ dt_pc = "accumulated"
    /\ dt_ckpt' = (dt_page % save_progress_every = 0)
    /\ dt_pc' = "page_done"
    /\ UNCHANGED <<dt_fetches, dt_page_players, dt_items, dt_fetch_history, dt_workers, dt_page, dt_running,
                   dt_finished, dt_collected, dt_age_results, dt_all_history>>

\* page += 1 and the fetch of the next listing page (lines 452-453, 415).
DtNextPage ==
    /\ dt_pc = "page_done"
    /\ dt_page' = dt_page + 1
    /\ dt_pc' = "next_fetch"
    /\ UNCHANGED <<dt_fetches, dt_page_players, dt_items, dt_fetch_history, dt_workers, dt_running,
                   dt_finished, dt_collected, dt_age_results, dt_all_history,
                   dt_ckpt>>

(***************************************************************************)
(* __main__ as a whole, with the rating history: a process is started with *)
(* any of --history, --use-cache, --resume, loads what its flags say,      *)
(* scrapes unless it runs from the cache, uploads the players and then the *)
(* history, removes the files of the session, and exits. The players and   *)
(* the history collected in a session are the list of the ids of the       *)
(* sessions they came from.                                                *)
(***************************************************************************)
MaxProcesses == 2

HistoryFile(session_id) == <<"history", session_id>>

\* How a scrape goes: players found; no player at all; the listing fetch
\* failing, which ends the scrape as if the pages had run out; an exception
\* raised out of the loop.
ScrapeOutcomes == {"ok", "nothing", "fetch_failed", "raise"}

Sessions(data) == {data[i] : i \in 1..Len(data)}

MnIdle ==
    /\ mn_pc = "idle" /\ mn_flags = <<>> /\ mn_session_id = 0
    /\ mn_players = <<>> /\ mn_history = <<>> /\ mn_files = <<>>
    /\ mn_exit = -1 /\ mn_runs = 0 /\ mn_failed = {}
    /\ mn_uploaded = [players |-> {}, history |-> {}] /\ mn_deleted = {}

MnInit ==
    /\ mn_pc = "not_started"
    /\ mn_flags = <<>>
    /\ mn_session_id = 0
    /\ mn_players = <<>>
    /\ mn_history = <<>>
    /\ mn_files = <<>>
    /\ mn_exit = -1
    /\ mn_runs = 0
    /\ mn_failed = {}
    /\ mn_uploaded = [players |-> {}, history |-> {}]
    /\ mn_deleted = {}

\* A process starts: the flags are read, then the resume branch (lines
\* 935-956) or the use-cache branch (lines 958-976) loads what is on disk.
MnStart ==
    /\ mn_pc \in {"not_started", "exited"}
    /\ mn_runs < MaxProcesses
    /\ mn_runs' = mn_runs + 1
    /\ mn_exit' = -1
    /\ mn_failed' = {}
    /\ \E fetch_history, use_cache, resume \in BOOLEAN :
          LET progress_file == LatestFile(mn_files, "progress")
              players_temp_file == LatestFile(mn_files, "players")
              history_temp_file == LatestFile(mn_files, "history")
              resumed == resume /\ progress_file # None
              cached == /\ use_cache /\ ~resumed
                        /\ players_temp_file # None
                        /\ mn_files[players_temp_file] # <<>>
          IN  /\ mn_flags' = [fetch_history |-> fetch_history,
                              use_cache |-> cached, resume |-> resumed]
              /\ IF resumed
                 THEN /\ mn_session_id' = mn_files[progress_file].session_id
                      /\ mn_players' =
                            IF players_temp_file # None
                               /\ players_temp_file[2]
                                    = mn_files[progress_file].session_id
                            THEN mn_files[players_temp_file] ELSE <<>>
                      /\ mn_history' =
                            IF fetch_history /\ history_temp_file # None
                               /\ history_temp_file[2]
                                    = mn_files[progress_file].session_id
                            THEN mn_files[history_temp_file] ELSE <<>>
                 ELSE IF use_cache
                 THEN /\ mn_session_id' =
                            IF players_temp_file # None
                            THEN players_temp_file[2] ELSE 0
                      /\ mn_players' =
                            IF players_temp_file # None
                            THEN mn_files[players_temp_file] ELSE <<>>
                      /\ mn_history' =
                            IF fetch_history /\ history_temp_file # None
                            THEN mn_files[history_temp_file] ELSE <<>>
                 ELSE /\ mn_session_id' = 0
                      /\ mn_players' = <<>>
                      /\ mn_history' = <<>>
              /\ mn_pc' = IF cached THEN "upload_players" ELSE "scrape"
    /\ UNCHANGED <<mn_files, mn_uploaded, mn_deleted>>

\* scrape_all_ttcan_players in the fresh branch (lines 978-989) or in the
\* resume branch (lines 991-1015), with the files the scrape and __main__
\* write; an exception ends the process with status 1.
MnScrape ==
    /\ mn_pc = "scrape"
    /\ \E outcome \in ScrapeOutcomes, found_players, found_history \in BOOLEAN :
          LET session_id == IF mn_flags.resume THEN mn_session_id ELSE mn_runs
              new_players == IF found_players THEN <<session_id>> ELSE <<>>
              new_history == IF found_history THEN <<session_id>> ELSE <<>>
              players == IF mn_flags.resume
                         THEN mn_players \o new_players ELSE new_players
              history == IF mn_flags.resume
                         THEN mn_history \o new_history ELSE new_history
              scraped == save_progress_state(mn_files, session_id, 1, new_players)
              with_players ==
                  WriteFile(scraped, PlayersFile(session_id),
                            IF outcome = "raise" THEN new_players ELSE players)
              with_history ==
                  IF (outcome = "raise" /\ new_history # <<>>)
                     \/ (outcome # "raise" /\ history # <<>>)
                  THEN WriteFile(with_players, HistoryFile(session_id),
                                 IF outcome = "raise" THEN new_history
                                 ELSE history)
                  ELSE with_players
          IN  /\ found_history => (mn_flags.fetch_history /\ found_players)
              /\ outcome = "ok" => found_players
              /\ outcome = "nothing" => ~found_players
              /\ mn_session_id' = session_id
              /\ mn_files' = with_history
              /\ mn_failed' = IF outcome \in {"fetch_failed", "raise"}
                              THEN mn_failed \cup {"scrape"} ELSE mn_failed
              /\ IF outcome = "raise"
                 THEN /\ mn_pc' = "exited"
                      /\ mn_exit' = 1
                      /\ UNCHANGED <<mn_players, mn_history>>
                 ELSE /\ mn_pc' = "upload_players"
                      /\ mn_exit' = mn_exit
                      /\ mn_players' = players
                      /\ mn_history' = history
    /\ UNCHANGED <<mn_flags, mn_runs, mn_uploaded, mn_deleted>>

\* Lines 1017-1023 and 1037-1054: write_players_to_sheet, and what follows
\* when there is no history to upload.
MnUploadPlayers ==
    /\ mn_pc = "upload_players"
    /\ IF mn_players = <<>>
       THEN /\ mn_pc' = "exited"
            /\ mn_exit' = 0
            /\ UNCHANGED <<mn_files, mn_failed, mn_uploaded, mn_deleted>>
       ELSE \E success \in BOOLEAN :
               IF ~success
               THEN /\ mn_pc' = "exited"
                    /\ mn_exit' = 1
                    /\ mn_failed' = mn_failed \cup {"players"}
                    /\ UNCHANGED <<mn_files, mn_uploaded, mn_deleted>>
               ELSE /\ mn_uploaded' =
                          [mn_uploaded EXCEPT !.players = @ \cup Sessions(mn_players)]
                    /\ mn_failed' = mn_failed
                    /\ IF mn_history # <<>>
                       THEN /\ mn_pc' = "upload_history"
                            /\ UNCHANGED <<mn_files, mn_deleted, mn_exit>>
                       ELSE /\ mn_files' =
                                  cleanup_session_files(mn_files, mn_session_id)
                            /\ mn_deleted' =
                                  mn_deleted
                                  \cup {n \in DOMAIN mn_files : n[2] = mn_session_id}
                            /\ mn_pc' = "exited"
                            /\ mn_exit' = 0
    /\ UNCHANGED <<mn_flags, mn_session_id, mn_players, mn_history, mn_runs>>

\* Lines 1025-1036: write_history_to_sheet; the process ends with status 0
\* either way.
MnUploadHistory ==
    /\ mn_pc = "upload_history"
    /\ \E history_success \in BOOLEAN :
          IF history_success
          THEN /\ mn_uploaded' =
                     [mn_uploaded EXCEPT !.history = @ \cup Sessions(mn_history)]
               /\ mn_files' = cleanup_session_files(mn_files, mn_session_id)
               /\ mn_deleted' =
                     mn_deleted
                     \cup {n \in DOMAIN mn_files : n[2] = mn_session_id}
               /\ mn_failed' = mn_failed
          ELSE /\ mn_failed' = mn_failed \cup {"history"}
               /\ UNCHANGED <<mn_files, mn_uploaded, mn_deleted>>
    /\ mn_pc' = "exited"
    /\ mn_exit' = 0
    /\ UNCHANGED <<mn_flags, mn_session_id, mn_players, mn_history, mn_runs>>

(***************************************************************************)
(* The page loop of scrape_all_players_by_gender on its own, called with   *)
(* no session (so that no file is written) and with any max_pages and any  *)
(* resume_from_page. A record is the pair of its page and its position on  *)
(* the page; a page past the end of the site holds no record.              *)
(***************************************************************************)
MaxSitePages == 3
MaxPageRows == 2
MaxPagesBound == 3
MaxResumePage == 3

SitePage(upstream, page) ==
    IF page \in 1..Len(upstream)
    THEN [k \in 1..upstream[page] |-> <<page, k>>]
    ELSE <<>>

\* line 410: `max_pages and page > max_pages`
max_pages_reached(max_pages, page) ==
    max_pages # <<>> /\ max_pages[1] # 0 /\ page > max_pages[1]

\* line 452
next_page_skipping(page) == page + 2

next_page(page) == page + 1

PgIdle ==
    /\ pg_upstream = <<>> /\ pg_max_pages = <<>> /\ pg_resume_from_page = 0
    /\ pg_page = 0 /\ pg_all_players = <<>> /\ pg_fetched = <<>>
    /\ pg_pc = "idle" /\ pg_result = <<>>

PgInit ==
    /\ \E n \in 0..MaxSitePages : pg_upstream \in [1..n -> 0..MaxPageRows]
    /\ pg_max_pages \in {<<>>} \cup {<<n>> : n \in 0..MaxPagesBound}
    /\ pg_resume_from_page \in 1..MaxResumePage
    /\ pg_page = pg_resume_from_page
    /\ pg_all_players = <<>>
    /\ pg_fetched = <<>>
    /\ pg_pc = "loop"
    /\ pg_result = <<>>

\* One pass of the loop body, lines 409-465.
PgIterate ==
    /\ pg_pc = "loop"
    /\ IF max_pages_reached(pg_max_pages, pg_page)
       THEN /\ pg_pc' = "break"
            /\ UNCHANGED <<pg_page, pg_all_players, pg_fetched>>
       ELSE \E outcome \in PageOutcomes :
               LET page_players == IF outcome = "fetch_error" THEN <<>>
                                   ELSE SitePage(pg_upstream, pg_page)
               IN  /\ outcome = "detail_raise" => page_players # <<>>
                   /\ pg_fetched' = Append(pg_fetched,
                                           [page |-> pg_page,
                                            players |-> page_players])
                   /\ IF page_players = <<>>
                      THEN /\ pg_pc' = "break"
                           /\ UNCHANGED <<pg_page, pg_all_players>>
                      ELSE IF outcome = "detail_raise"
                      THEN /\ pg_pc' = "raised"
                           /\ UNCHANGED <<pg_page, pg_all_players>>
                      ELSE /\ pg_all_players' = pg_all_players \o page_players
                           /\ pg_page' = next_page(pg_page)
                           /\ pg_pc' = "loop"
    /\ UNCHANGED <<pg_upstream, pg_max_pages, pg_resume_from_page, pg_result>>

\* Lines 467-473.
PgReturn ==
    /\ pg_pc = "break"
    /\ pg_pc' = "DONE"
    /\ pg_result' = pg_all_players
    /\ UNCHANGED <<pg_upstream, pg_max_pages, pg_resume_from_page, pg_page,
                   pg_all_players, pg_fetched>>

(***************************************************************************)
(* The rating history through a session: scraped page by page, saved as it *)
(* was scraped at every checkpoint, given the Gender and Province of its   *)
(* player when the scrape returns, reloaded by a process started with      *)
(* --resume, and uploaded. A process reads the files of its own session    *)
(* only, so the files are kept by kind.                                    *)
(***************************************************************************)
MaxHistoryPages == 3
MaxHistoryRuns == 2

\* dict.get(key, default)
dict_get(d, key, default) == IF key \in DOMAIN d THEN d[key] ELSE default

\* The player listed on page p, and the entry its detail page gives
\* (extract_rating_history_from_table, lines 222-227).
HistoryPlayer(p) ==
    [Name |-> PlayerNames[p], Province |-> <<"O">>,
     Gender |-> IF p % 2 = 1 THEN <<"F">> ELSE <<"M">>, Rating |-> <<"5", "0">>]

HistoryEntry(p) ==
    [PlayerName |-> PlayerNames[p], Period |-> DecimalText(p),
     Rating |-> <<"5", "0">>, LastPlayed |-> DecimalText(p)]

\* enrich_history_with_player_data (lines 490-499); player_lookup keeps the
\* last player of each name.
set_player_fields(history_entry, current_player) ==
    [k \in DOMAIN history_entry \cup {"Gender", "Province"} |->
        IF k = "Gender" THEN dict_get(current_player, "Gender", <<>>)
        ELSE IF k = "Province" THEN dict_get(current_player, "Province", <<>>)
        ELSE history_entry[k]]

enrich_history_with_player_data(history_data, players) ==
    [i \in 1..Len(history_data) |->
        IF \E j \in 1..Len(players) :
               players[j]["Name"] = history_data[i]["PlayerName"]
        THEN LET last == CHOOSE j \in 1..Len(players) :
                            /\ players[j]["Name"] = history_data[i]["PlayerName"]
                            /\ \A k \in (j + 1)..Len(players) :
                                  players[k]["Name"] # history_data[i]["PlayerName"]
             IN  set_player_fields(history_data[i], players[last])
        ELSE history_data[i]]

\* The rows write_history_to_sheet builds (lines 835-839).
history_rows(history_data) ==
    [i \in 1..Len(history_data) |->
        << dict_get(history_data[i], "PlayerName", <<>>),
           dict_get(history_data[i], "Period", <<>>),
           dict_get(history_data[i], "Rating", <<>>),
           dict_get(history_data[i], "LastPlayed", <<>>),
           dict_get(history_data[i], "Gender", <<>>),
           dict_get(history_data[i], "Province", <<>>) >>]

\* save_progress_state and update_temp_files_incremental of a checkpoint:
\* the history file is written only when there is history (line 612).
HsCheckpoint(files, last_page, players, history) ==
    LET progress == ("progress" :> last_page) @@ files
        with_players == ("players" :> players) @@ progress
    IN  IF history # <<>>
        THEN ("history" :> history) @@ with_players ELSE with_players

HsIdle ==
    /\ hs_N = 0 /\ hs_pc = "idle" /\ hs_mode = "none" /\ hs_page = 1
    /\ hs_all_players = <<>> /\ hs_all_history = <<>> /\ hs_players = <<>>
    /\ hs_history = <<>> /\ hs_files = <<>> /\ hs_handed = <<>> /\ hs_runs = 0

HsInit ==
    /\ hs_N \in 1..MaxHistoryPages
    /\ hs_pc = "not_started"
    /\ hs_mode = "none"
    /\ hs_page = 1
    /\ hs_all_players = <<>>
    /\ hs_all_history = <<>>
    /\ hs_players = <<>>
    /\ hs_history = <<>>
    /\ hs_files = <<>>
    /\ hs_handed = <<>>
    /\ hs_runs = 0

\* python scrapping.py --history: a new session (lines 978-982).
HsStartFresh ==
    /\ hs_pc \in {"not_started", "exited"}
    /\ hs_runs < MaxHistoryRuns
    /\ hs_runs' = hs_runs + 1
    /\ hs_mode' = "fresh"
    /\ hs_files' = <<>>
    /\ hs_page' = 1
    /\ hs_all_players' = <<>>
    /\ hs_all_history' = <<>>
    /\ hs_players' = <<>>
    /\ hs_history' = <<>>
    /\ hs_pc' = "loop"
    /\ UNCHANGED <<hs_N, hs_handed>>

\* python scrapping.py --history --resume, with a progress file on disk
\* (lines 935-952 and 991-997).
HsStartResume ==
    /\ hs_pc = "exited"
    /\ hs_runs < MaxHistoryRuns
    /\ "progress" \in DOMAIN hs_files
    /\ hs_runs' = hs_runs + 1
    /\ hs_mode' = "resume"
    /\ hs_page' = hs_files["progress"] + 1
    /\ hs_players' = dict_get(hs_files, "players", <<>>)
    /\ hs_history' = dict_get(hs_files, "history", <<>>)
    /\ hs_all_players' = <<>>
    /\ hs_all_history' = <<>>
    /\ hs_pc' = "loop"
    /\ UNCHANGED <<hs_N, hs_files, hs_handed>>

\* One pass of the page loop with fetch_history (lines 409-465).
HsPage ==
    /\ hs_pc = "loop"
    /\ \E outcome \in {"ok", "detail_raise"} :
          IF hs_page > hs_N
          THEN /\ outcome = "ok"
               /\ hs_pc' = "loop_done"
               /\ UNCHANGED <<hs_page, hs_all_players, hs_all_history, hs_files>>
          ELSE IF outcome = "detail_raise"
          THEN /\ hs_files' = HsCheckpoint(hs_files, hs_page - 1,
                                           hs_all_players, hs_all_history)
               /\ hs_pc' = "exited"
               /\ UNCHANGED <<hs_page, hs_all_players, hs_all_history>>
          ELSE /\ hs_all_history' = Append(hs_all_history, HistoryEntry(hs_page))
               /\ hs_all_players' = Append(hs_all_players, HistoryPlayer(hs_page))
               /\ hs_files' =
                     IF hs_page % save_progress_every = 0
                     THEN HsCheckpoint(hs_files, hs_page,
                                       Append(hs_all_players, HistoryPlayer(hs_page)),
                                       Append(hs_all_history, HistoryEntry(hs_page)))
                     ELSE hs_files
               /\ hs_page' = hs_page + 1
               /\ hs_pc' = "loop"
    /\ UNCHANGED <<hs_N, hs_mode, hs_players, hs_history, hs_handed, hs_runs>>

\* The end of the scrape: the final checkpoint (lines 467-470), the rest of
\* scrape_all_ttcan_players (lines 515-524) and what __main__ does with the
\* result (lines 984-989 or 1002-1008).
HsReturn ==
    /\ hs_pc = "loop_done"
    /\ LET checkpointed == HsCheckpoint(hs_files, hs_page - 1,
                                        hs_all_players, hs_all_history)
           unique_players == deduplicate_players(hs_all_players)
           all_history == IF hs_all_history # <<>>
                          THEN enrich_history_with_player_data(hs_all_history,
                                                               unique_players)
                          ELSE hs_all_history
           players == IF hs_mode = "resume"
                      THEN hs_players \o unique_players ELSE unique_players
           history == IF hs_mode = "resume"
                      THEN hs_history \o all_history ELSE all_history
           with_players == IF hs_mode = "resume" \/ players # <<>>
                           THEN ("players" :> players) @@ checkpointed
                           ELSE checkpointed
       IN  /\ hs_players' = players
           /\ hs_history' = history
           /\ hs_files' = IF history # <<>>
                          THEN ("history" :> history) @@ with_players
                          ELSE with_players
    /\ hs_pc' = "upload"
    /\ UNCHANGED <<hs_N, hs_mode, hs_page, hs_all_players, hs_all_history,
                   hs_handed, hs_runs>>

\* The uploads (lines 1017-1054); the history follows the players when they
\* went through, and the files are removed when nothing failed.
HsUpload ==
    /\ hs_pc = "upload"
    /\ \E success, history_success \in BOOLEAN :
          IF hs_players # <<>> /\ success
          THEN IF hs_history # <<>>
               THEN /\ hs_handed' =
                          Append(hs_handed,
                                 [rows |-> history_rows(hs_history),
                                  players |-> hs_players, mode |-> hs_mode])
                    /\ hs_files' = IF history_success THEN <<>> ELSE hs_files
               ELSE /\ history_success
                    /\ hs_files' = <<>>
                    /\ hs_handed' = hs_handed
          ELSE /\ ~success /\ history_success
               /\ UNCHANGED <<hs_files, hs_handed>>
    /\ hs_pc' = "exited"
    /\ UNCHANGED <<hs_N, hs_mode, hs_page, hs_all_players, hs_all_history,
                   hs_players, hs_history, hs_runs>>

(***************************************************************************)
(* extract_rating_history_from_table on the tables a detail page may hold  *)
(***************************************************************************)
HISTORY_CUTOFF_YEAR == 2010
MIN_COLUMNS_FOR_RATING_DATA == 5
MIN_DATE_LENGTH == 5
MaxTableRows == 2

\* str.isdigit() is also true of digit characters that are not decimal, such
\* as a superscript two (written "^2" here, one character), which int()
\* rejects with ValueError.
OtherDigits == {"^2"}

str_isdigit(s) == s # <<>> /\ \A i \in 1..Len(s) : s[i] \in Digits \cup OtherDigits

\* period_date.split(', ')[-1]: what follows the last ', ', or the whole
\* text when there is none.
after_last_separator(s) ==
    LET at == {i \in 1..(Len(s) - 1) : s[i] = "," /\ s[i + 1] = " "}
    IN  IF at = {} THEN s
        ELSE SubSeq(s, (CHOOSE i \in at : \A j \in at : j <= i) + 2, Len(s))

\* is_valid_rating_entry (lines 100-116): "True", "False", or "ValueError"
\* out of int(rating).
is_valid_rating_entry(period_id, period_date, rating) ==
    IF ~(rating # <<>> /\ str_isdigit(rating)) THEN "False"
    ELSE IF ~(period_id # <<>> /\ str_isdigit(period_id)) THEN "False"
    ELSE IF ~(period_date # <<>> /\ Len(period_date) > MIN_DATE_LENGTH) THEN "False"
    ELSE IF ~IntParses(rating) THEN "ValueError"
    ELSE IF IntValue(rating) >= MAX_RATING THEN "False"
    ELSE "True"

\* is_after_cutoff_year (lines 118-125)
is_after_cutoff_year(period_date) ==
    /\ IntParses(after_last_separator(period_date))
    /\ IntValue(after_last_separator(period_date)) > HISTORY_CUTOFF_YEAR

\* The loop of extract_rating_history_from_table over rows[1..n] (lines
\* 205-227): the entries so far, or the exception that ended it. An entry
\* is given the number of its row, to tell which row it came from.
RECURSIVE history_of_rows(_, _, _)
history_of_rows(rows, n, player_name) ==
    IF n = 0 THEN [raised |-> NoError, history |-> <<>>]
    ELSE LET before == history_of_rows(rows, n - 1, player_name)
             col_texts == [c \in 1..Len(rows[n]) |-> strip(rows[n][c])]
             valid == is_valid_rating_entry(col_texts[1], col_texts[2], col_texts[5])
         IN  IF before.raised # NoError THEN before
             ELSE IF Len(rows[n]) < MIN_COLUMNS_FOR_RATING_DATA THEN before
             ELSE IF valid = "ValueError"
             THEN [raised |-> <<"ValueError">>, history |-> <<>>]
             ELSE IF valid = "True" /\ is_after_cutoff_year(col_texts[2])
             THEN [before EXCEPT !.history =
                      Append(@, [PlayerName |-> player_name,
                                 Period |-> col_texts[2],
                                 Rating |-> col_texts[5],
                                 LastPlayed |-> col_texts[2],
                                 row |-> n])]
             ELSE before

extract_rating_history_from_table(rows, player_name) ==
    IF Len(rows) < 2 THEN [raised |-> NoError, history |-> <<>>]
    ELSE history_of_rows(rows, Len(rows), player_name)

\* Rows to try: a row that passes, and rows that differ from it in one cell.
DateOf(year) == <<"A", "p", " ", "5", ",", " ">> \o year

HistoryRow(period_id, period_date, rating) ==
    <<period_id, period_date, <<"O">>, <<"M">>, rating>>

HistoryRows ==
    { HistoryRow(<<"7">>, DateOf(<<"2", "0", "2", "2">>), <<"5", "0">>),
      HistoryRow(<<"7">>, DateOf(<<"2", "0", "0", "5">>), <<"5", "0">>),
      HistoryRow(<<"7">>, DateOf(<<"2", "0", "1", "0">>), <<"5", "0">>),
      HistoryRow(<<"7">>, DateOf(<<"2", "0", "1", "1">>), <<"5", "0">>),
      HistoryRow(<<"7">>, DateOf(<<"x">>), <<"5", "0">>),
      HistoryRow(<<"7">>, <<"A", ",", " ">> \o DateOf(<<"2", "0", "2", "2">>),
                 <<"5", "0">>),
      HistoryRow(<<"7">>, <<"2", "0", "2", "2", "0", "5">>, <<"5", "0">>),
      HistoryRow(<<"7">>, <<"2", "0", "2", "2">>, <<"5", "0">>),
      HistoryRow(<<"7">>, <<>>, <<"5", "0">>),
      HistoryRow(<<"x">>, DateOf(<<"2", "0", "2", "2">>), <<"5", "0">>),
      HistoryRow(<<>>, DateOf(<<"2", "0", "2", "2">>), <<"5", "0">>),
      HistoryRow(<<"7">>, DateOf(<<"2", "0", "2", "2">>), <<"5", "0", "0", "0">>),
      HistoryRow(<<"7">>, DateOf(<<"2", "0", "2", "2">>), <<"4", "9", "9", "9">>),
      HistoryRow(<<"7">>, DateOf(<<"2", "0", "2", "2">>), <<" ", "5", "0">>),
      HistoryRow(<<"7">>, DateOf(<<"2", "0", "2", "2">>), <<"x">>),
      HistoryRow(<<"7">>, DateOf(<<"2", "0", "2", "2">>), <<>>),
      HistoryRow(<<"7">>, DateOf(<<"2", "0", "2", "2">>), <<"^2">>),
      SubSeq(HistoryRow(<<"7">>, DateOf(<<"2", "0", "2", "2">>), <<"5", "0">>),
             1, 4),
      <<<<"I", "D">>, <<"D", "a", "t", "e">>, <<"P">>, <<"G">>, <<"R">>>> }

HeIdle == he_rows = <<>> /\ he_pc = "idle" /\ he_out = <<>>

HeInit ==
    /\ \E n \in 1..MaxTableRows : he_rows \in [1..n -> HistoryRows]
    /\ he_pc = "start"
    /\ he_out = <<>>

HeExtract ==
    /\ he_pc = "start"
    /\ he_out' = extract_rating_history_from_table(he_rows, <<"A">>)
    /\ he_pc' = "done"
    /\ UNCHANGED he_rows

(***************************************************************************)
(* handle_google_api_error on the text of the exception: the text is       *)
(* lowercased and searched for the phrases of the two lists; the phrases   *)
(* found are what the upload's model of an exception holds.                *)
(***************************************************************************)
UpperCase == <<"A", "B", "C", "D", "E", "F", "G", "H", "I", "J", "K", "L", "M",
               "N", "O", "P", "Q", "R", "S", "T", "U", "V", "W", "X", "Y", "Z">>
LowerCase == <<"a", "b", "c", "d", "e", "f", "g", "h", "i", "j", "k", "l", "m",
               "n", "o", "p", "q", "r", "s", "t", "u", "v", "w", "x", "y", "z">>

\* str.lower
lower(s) ==
    [i \in 1..Len(s) |->
        IF \E k \in 1..26 : UpperCase[k] = s[i]
        THEN LowerCase[CHOOSE k \in 1..26 : UpperCase[k] = s[i]]
        ELSE s[i]]

\* `err in error_str` for two strings
Contains(s, p) ==
    \E i \in 0..(Len(s) - Len(p)) : SubSeq(s, i + 1, i + Len(p)) = p

\* The characters of the phrases of the two lists.
PhraseText(p) ==
    CASE p = "502" -> <<"5", "0", "2">>
      [] p = "503" -> <<"5", "0", "3">>
      [] p = "504" -> <<"5", "0", "4">>
      [] p = "server error" -> <<"s", "e", "r", "v", "e", "r", " ", "e", "r", "r", "o", "r">>
      [] p = "temporarily unavailable" -> <<"t", "e", "m", "p", "o", "r", "a", "r", "i", "l", "y", " ", "u", "n", "a", "v", "a", "i", "l", "a", "b", "l", "e">>
      [] p = "rate limit" -> <<"r", "a", "t", "e", " ", "l", "i", "m", "i", "t">>
      [] p = "quota exceeded" -> <<"q", "u", "o", "t", "a", " ", "e", "x", "c", "e", "e", "d", "e", "d">>
      [] p = "timeout" -> <<"t", "i", "m", "e", "o", "u", "t">>
      [] p = "connection error" -> <<"c", "o", "n", "n", "e", "c", "t", "i", "o", "n", " ", "e", "r", "r", "o", "r">>
      [] p = "internal error" -> <<"i", "n", "t", "e", "r", "n", "a", "l", " ", "e", "r", "r", "o", "r">>
      [] p = "backend error" -> <<"b", "a", "c", "k", "e", "n", "d", " ", "e", "r", "r", "o", "r">>
      [] p = "that's an error" -> <<"t", "h", "a", "t", "'", "s", " ", "a", "n", " ", "e", "r", "r", "o", "r">>
      [] p = "authentication" -> <<"a", "u", "t", "h", "e", "n", "t", "i", "c", "a", "t", "i", "o", "n">>
      [] p = "unauthorized" -> <<"u", "n", "a", "u", "t", "h", "o", "r", "i", "z", "e", "d">>
      [] p = "401" -> <<"4", "0", "1">>
      [] p = "403" -> <<"4", "0", "3">>
      [] p = "not found" -> <<"n", "o", "t", " ", "f", "o", "u", "n", "d">>
      [] p = "404" -> <<"4", "0", "4">>
      [] p = "permission denied" -> <<"p", "e", "r", "m", "i", "s", "s", "i", "o", "n", " ", "d", "e", "n", "i", "e", "d">>

error_str_as_is(error) == error

\* error_str = str(error).lower()
error_str(error) == lower(error)

\* The phrases of either list that occur in a string.
PhrasesIn(s) ==
    {p \in retryable_errors \cup non_retryable : Contains(s, PhraseText(p))}

\* handle_google_api_error(error) for an exception whose str() is `error`.
handle_google_api_error_of_text(error) ==
    handle_google_api_error(<<PhrasesIn(error_str(error))>>)

MaxFragments == 2

\* The pieces the texts tried are made of.
ErrorFragments ==
    {<<"5", "0", "3">>,
     <<"4", "0", "3">>,
     <<"4", "0">>,
     <<"3">>,
     <<"N", "o", "t", " ", "F", "o", "u", "n", "d">>,
     <<"R", "a", "t", "e", " ", "L", "i", "m", "i", "t">>,
     <<"T", "I", "M", "E", "O", "U", "T">>,
     <<"b", "o", "o", "m">>,
     <<"A", "P", "I", "E", "r", "r", "o", "r", ":", " ">>,
     <<"n", "o", "t">>}

RECURSIVE ErrorStrings(_)
ErrorStrings(n) ==
    IF n = 0 THEN {<<>>}
    ELSE ErrorStrings(n - 1)
            \cup {s \o f : s \in ErrorStrings(n - 1), f \in ErrorFragments}

EcIdle == ec_error = <<>> /\ ec_pc = "idle" /\ ec_result = "none"

EcInit ==
    /\ ec_error \in ErrorStrings(MaxFragments)
    /\ ec_pc = "call"
    /\ ec_result = "none"

EcClassify ==
    /\ ec_pc = "call"
    /\ ec_result' = IF handle_google_api_error_of_text(ec_error) THEN "True" ELSE "False"
    /\ ec_pc' = "done"
    /\ UNCHANGED ec_error

(***************************************************************************)
(* extract_age_from_text: five patterns `label\s*(group)` searched in      *)
(* order, case-insensitively; the group of the first match is converted to *)
(* an age, or the next pattern is tried.                                   *)
(***************************************************************************)
WhiteSpace == {" ", "\t"}

\* The index after the longest run of characters of S that starts at i.
RECURSIVE SkipWhile(_, _, _)
SkipWhile(s, i, S) ==
    IF i <= Len(s) /\ s[i] \in S THEN SkipWhile(s, i + 1, S) ELSE i

DigitsAt(s, j, n) == j + n - 1 <= Len(s) /\ \A k \in j..(j + n - 1) : s[k] \in Digits

\* The groups: (\d+), (\d{4}) and (\d{4}-\d{2}-\d{2}) at index j; <<>> is
\* "no match here".
GroupAt(s, j, kind) ==
    CASE kind = "digits" -> SubSeq(s, j, SkipWhile(s, j, Digits) - 1)
      [] kind = "year" -> IF DigitsAt(s, j, 4) THEN SubSeq(s, j, j + 3) ELSE <<>>
      [] kind = "date" ->
            IF /\ j + 9 <= Len(s)
               /\ DigitsAt(s, j, 4) /\ s[j + 4] = "-"
               /\ DigitsAt(s, j + 5, 2) /\ s[j + 7] = "-"
               /\ DigitsAt(s, j + 8, 2)
            THEN SubSeq(s, j, j + 9) ELSE <<>>

\* The group of a match of the pattern that starts at index i.
MatchAt(s, i, pattern) ==
    IF /\ i + Len(pattern.label) - 1 <= Len(s)
       /\ lower(SubSeq(s, i, i + Len(pattern.label) - 1)) = lower(pattern.label)
    THEN GroupAt(s, SkipWhile(s, i + Len(pattern.label), WhiteSpace), pattern.kind)
    ELSE <<>>

\* re.search(pattern, page_text, re.IGNORECASE).group(1): the leftmost match.
re_search(pattern, s) ==
    LET hits == {i \in 1..Len(s) : MatchAt(s, i, pattern) # <<>>}
    IN  IF hits = {} THEN <<>>
        ELSE MatchAt(s, CHOOSE i \in hits : \A j \in hits : i <= j, pattern)

age_patterns ==
    << [label |-> <<"A", "g", "e", ":">>, kind |-> "digits"],
       [label |-> <<"D", "O", "B", ":">>, kind |-> "date"],
       [label |-> <<"D", "a", "t", "e", " ", "o", "f", " ", "B", "i", "r", "t", "h", ":">>,
        kind |-> "date"],
       [label |-> <<"B", "o", "r", "n", ":">>, kind |-> "year"],
       [label |-> <<"Y", "e", "a", "r", " ", "o", "f", " ", "B", "i", "r", "t", "h", ":">>,
        kind |-> "year"] >>

\* str(n)
str_int(n) == IF n < 0 THEN <<"-">> \o DecimalText(0 - n) ELSE DecimalText(n)

IsLeap(y) == (y % 4 = 0 /\ y % 100 # 0) \/ y % 400 = 0

DaysIn(y, m) ==
    IF m = 2 THEN (IF IsLeap(y) THEN 29 ELSE 28)
    ELSE IF m \in {4, 6, 9, 11} THEN 30 ELSE 31

\* datetime.strptime(age_info, '%Y-%m-%d'): the date, or <<>> for ValueError.
strptime(age_info) ==
    LET y == DecimalValue(SubSeq(age_info, 1, 4))
        m == DecimalValue(SubSeq(age_info, 6, 7))
        d == DecimalValue(SubSeq(age_info, 9, 10))
    IN  IF y >= 1 /\ m \in 1..12 /\ d >= 1 /\ d <= DaysIn(y, m)
        THEN <<[year |-> y, month |-> m, day |-> d]>>
        ELSE <<>>

before_birthday_inclusive(current_date, birth_date) ==
    \/ current_date.month < birth_date.month
    \/ current_date.month = birth_date.month /\ current_date.day <= birth_date.day

\* The condition of `calculated_age -= 1`.
before_birthday(current_date, birth_date) ==
    \/ current_date.month < birth_date.month
    \/ current_date.month = birth_date.month /\ current_date.day < birth_date.day

\* The body of `if match:`: the age returned, or <<>> when the loop goes on
\* to the next pattern.
age_of_group(age_info, now) ==
    IF Len(age_info) = 4 /\ isdigit(age_info)
    THEN str_int(now.year - DecimalValue(age_info))
    ELSE IF (\E i \in 1..Len(age_info) : age_info[i] = "-") /\ Len(age_info) = 10
    THEN IF strptime(age_info) = <<>> THEN <<>>
         ELSE LET birth_date == strptime(age_info)[1]
                  calculated_age == now.year - birth_date.year
              IN  IF before_birthday(now, birth_date)
                  THEN str_int(calculated_age - 1)
                  ELSE str_int(calculated_age)
    ELSE IF isdigit(age_info) THEN age_info
    ELSE <<>>

\* The loop from pattern k on: [pattern, group, age] of the return, or
\* pattern 0 and None.
RECURSIVE age_from_patterns(_, _, _)
age_from_patterns(k, page_text, now) ==
    IF k > Len(age_patterns) THEN [pattern |-> 0, group |-> <<>>, age |-> None]
    ELSE LET age_info == re_search(age_patterns[k], page_text)
         IN  IF age_info # <<>> /\ age_of_group(age_info, now) # <<>>
             THEN [pattern |-> k, group |-> age_info,
                   age |-> age_of_group(age_info, now)]
             ELSE age_from_patterns(k + 1, page_text, now)

extract_age_from_text(page_text, now) == age_from_patterns(1, page_text, now).age

MaxTextParts == 2

\* The pieces the page texts tried are made of.
TextParts ==
    {<<"B", "o", "r", "n", ":", " ", "1", "9", "9", "0">>,
     <<"D", "O", "B", ":", " ", "1", "9", "9", "0", "-", "0", "6", "-", "1", "5">>,
     <<"d", "a", "t", "e", " ", "o", "f", " ", "b", "i", "r", "t", "h", ":", "2", "0", "0", "0", "-", "0", "2", "-", "2", "9">>,
     <<"D", "O", "B", ":", " ", "1", "9", "9", "0", "-", "1", "3", "-", "0", "1">>,
     <<"A", "g", "e", ":", " ", "3", "5">>,
     <<"A", "g", "e", ":", " ", "1", "9", "9", "0">>,
     <<"Y", "e", "a", "r", " ", "o", "f", " ", "B", "i", "r", "t", "h", ":", " ", " ", "1", "9", "8", "5">>,
     <<"B", "o", "r", "n", ":", " ", "1", "9", "9">>,
     <<" ", "x", " ">>}

RECURSIVE PageTexts(_)
PageTexts(n) ==
    IF n = 0 THEN {<<>>}
    ELSE PageTexts(n - 1) \cup {s \o f : s \in PageTexts(n - 1), f \in TextParts}

\* The days the program is run on.
Todays ==
    {[year |-> 2025, month |-> md[1], day |-> md[2]] :
        md \in {<<6, 14>>, <<6, 15>>, <<6, 16>>, <<2, 28>>, <<3, 1>>}}
        \cup {[year |-> 2026, month |-> 1, day |-> 1]}

AgIdle ==
    /\ ag_text = <<>> /\ ag_now = [year |-> 2025, month |-> 1, day |-> 1]
    /\ ag_pc = "idle" /\ ag_match = [pattern |-> 0, group |-> <<>>]
    /\ ag_result = None

AgInit ==
    /\ ag_text \in PageTexts(MaxTextParts)
    /\ ag_now \in Todays
    /\ ag_pc = "call"
    /\ ag_match = [pattern |-> 0, group |-> <<>>]
    /\ ag_result = None

AgExtract ==
    /\ ag_pc = "call"
    /\ \E r \in {age_from_patterns(1, ag_text, ag_now)} :
          /\ ag_result' = r.age
          /\ ag_match' = [pattern |-> r.pattern, group |-> r.group]
    /\ ag_pc' = "done"
    /\ UNCHANGED <<ag_text, ag_now>>

(***************************************************************************)
(* Specifications, one per component; the others stand idle.               *)
(***************************************************************************)
vars == <<exVars, ddVars, rqVars, skVars, hvVars, upVars, dtVars, mnVars, pgVars, hsVars, heVars, ecVars, agVars>>

Init == ExIdle /\ DdIdle /\ RqIdle /\ SkIdle /\ HvInit /\ UpIdle /\ DtIdle /\ MnIdle /\ PgIdle /\ HsIdle /\ HeIdle /\ EcIdle /\ AgIdle
StartFresh == HvStartFresh /\ UNCHANGED <<exVars, ddVars, rqVars, skVars, upVars, dtVars, mnVars, pgVars, hsVars, heVars, ecVars, agVars>>
StartResume == HvStartResume /\ UNCHANGED <<exVars, ddVars, rqVars, skVars, upVars, dtVars, mnVars, pgVars, hsVars, heVars, ecVars, agVars>>
Page == HvPage /\ UNCHANGED <<exVars, ddVars, rqVars, skVars, upVars, dtVars, mnVars, pgVars, hsVars, heVars, ecVars, agVars>>
SaveProgress == HvSaveProgress /\ UNCHANGED <<exVars, ddVars, rqVars, skVars, upVars, dtVars, mnVars, pgVars, hsVars, heVars, ecVars, agVars>>
SaveSnapshot == HvSaveSnapshot /\ UNCHANGED <<exVars, ddVars, rqVars, skVars, upVars, dtVars, mnVars, pgVars, hsVars, heVars, ecVars, agVars>>
ExceptProgress == HvExceptProgress /\ UNCHANGED <<exVars, ddVars, rqVars, skVars, upVars, dtVars, mnVars, pgVars, hsVars, heVars, ecVars, agVars>>
ExceptSnapshot == HvExceptSnapshot /\ UNCHANGED <<exVars, ddVars, rqVars, skVars, upVars, dtVars, mnVars, pgVars, hsVars, heVars, ecVars, agVars>>
FinalProgress == HvFinalProgress /\ UNCHANGED <<exVars, ddVars, rqVars, skVars, upVars, dtVars, mnVars, pgVars, hsVars, heVars, ecVars, agVars>>
FinalSnapshot == HvFinalSnapshot /\ UNCHANGED <<exVars, ddVars, rqVars, skVars, upVars, dtVars, mnVars, pgVars, hsVars, heVars, ecVars, agVars>>
Merge == HvMerge /\ UNCHANGED <<exVars, ddVars, rqVars, skVars, upVars, dtVars, mnVars, pgVars, hsVars, heVars, ecVars, agVars>>
Upload == HvUpload /\ UNCHANGED <<exVars, ddVars, rqVars, skVars, upVars, dtVars, mnVars, pgVars, hsVars, heVars, ecVars, agVars>>
Crash == HvCrash /\ UNCHANGED <<exVars, ddVars, rqVars, skVars, upVars, dtVars, mnVars, pgVars, hsVars, heVars, ecVars, agVars>>
Next ==
    StartFresh \/ StartResume \/ Page \/ SaveProgress \/ SaveSnapshot
    \/ ExceptProgress \/ ExceptSnapshot
    \/ FinalProgress \/ FinalSnapshot \/ Merge \/ Upload \/ Crash
Spec == Init /\ [][Next]_vars

InitExtract == ExInit /\ DdIdle /\ RqIdle /\ SkIdle /\ HvIdle /\ UpIdle /\ DtIdle /\ MnIdle /\ PgIdle /\ HsIdle /\ HeIdle /\ EcIdle /\ AgIdle
ExScrapeStep == ExScrape /\ UNCHANGED <<ddVars, rqVars, skVars, hvVars, upVars, dtVars, mnVars, pgVars, hsVars, heVars, ecVars, agVars>>
NextExtract == ExScrapeStep
SpecExtract == InitExtract /\ [][NextExtract]_vars

InitDedup == ExIdle /\ DdInit /\ RqIdle /\ SkIdle /\ HvIdle /\ UpIdle /\ DtIdle /\ MnIdle /\ PgIdle /\ HsIdle /\ HeIdle /\ EcIdle /\ AgIdle
DdOnceStep == DdOnce /\ UNCHANGED <<exVars, rqVars, skVars, hvVars, upVars, dtVars, mnVars, pgVars, hsVars, heVars, ecVars, agVars>>
DdTwiceStep == DdTwice /\ UNCHANGED <<exVars, rqVars, skVars, hvVars, upVars, dtVars, mnVars, pgVars, hsVars, heVars, ecVars, agVars>>
NextDedup == DdOnceStep \/ DdTwiceStep
SpecDedup == InitDedup /\ [][NextDedup]_vars

InitFetch == ExIdle /\ DdIdle /\ RqInit /\ SkIdle /\ HvIdle /\ UpIdle /\ DtIdle /\ MnIdle /\ PgIdle /\ HsIdle /\ HeIdle /\ EcIdle /\ AgIdle
RqGetStep == RqGet /\ UNCHANGED <<exVars, ddVars, skVars, hvVars, upVars, dtVars, mnVars, pgVars, hsVars, heVars, ecVars, agVars>>
RqSleepStep == RqSleep /\ UNCHANGED <<exVars, ddVars, skVars, hvVars, upVars, dtVars, mnVars, pgVars, hsVars, heVars, ecVars, agVars>>
NextFetch == RqGetStep \/ RqSleepStep
SpecFetch == InitFetch /\ [][NextFetch]_vars

InitSink == ExIdle /\ DdIdle /\ RqIdle /\ SkInit /\ HvIdle /\ UpIdle /\ DtIdle /\ MnIdle /\ PgIdle /\ HsIdle /\ HeIdle /\ EcIdle /\ AgIdle
SkCallStep == SkCall /\ UNCHANGED <<exVars, ddVars, rqVars, hvVars, upVars, dtVars, mnVars, pgVars, hsVars, heVars, ecVars, agVars>>
SkClearStep == SkClear /\ UNCHANGED <<exVars, ddVars, rqVars, hvVars, upVars, dtVars, mnVars, pgVars, hsVars, heVars, ecVars, agVars>>
SkHeaderStep == SkHeader /\ UNCHANGED <<exVars, ddVars, rqVars, hvVars, upVars, dtVars, mnVars, pgVars, hsVars, heVars, ecVars, agVars>>
SkAppendStep == SkAppend /\ UNCHANGED <<exVars, ddVars, rqVars, hvVars, upVars, dtVars, mnVars, pgVars, hsVars, heVars, ecVars, agVars>>
SkExceptStep == SkExcept /\ UNCHANGED <<exVars, ddVars, rqVars, hvVars, upVars, dtVars, mnVars, pgVars, hsVars, heVars, ecVars, agVars>>
NextSink ==
    SkCallStep \/ SkClearStep \/ SkHeaderStep \/ SkAppendStep \/ SkExceptStep
SpecSink == InitSink /\ [][NextSink]_vars

InitRetry == ExIdle /\ DdIdle /\ RqIdle /\ SkInit /\ HvIdle /\ UpInit /\ DtIdle /\ MnIdle /\ PgIdle /\ HsIdle /\ HeIdle /\ EcIdle /\ AgIdle
UpRetryStep == UpRetry /\ UNCHANGED <<exVars, ddVars, rqVars, hvVars, dtVars, mnVars, pgVars, hsVars, heVars, ecVars, agVars>>
NextRetry ==
    SkCallStep \/ SkClearStep \/ SkHeaderStep \/ SkAppendStep \/ SkExceptStep
    \/ UpRetryStep
SpecRetry == InitRetry /\ [][NextRetry]_vars

InitDetail == ExIdle /\ DdIdle /\ RqIdle /\ SkIdle /\ HvIdle /\ UpIdle /\ DtInit /\ MnIdle /\ PgIdle /\ HsIdle /\ HeIdle /\ EcIdle /\ AgIdle
DtSubmitStep == DtSubmit /\ UNCHANGED <<exVars, ddVars, rqVars, skVars, hvVars, upVars, mnVars, pgVars, hsVars, heVars, ecVars, agVars>>
DtStartStep == DtStart /\ UNCHANGED <<exVars, ddVars, rqVars, skVars, hvVars, upVars, mnVars, pgVars, hsVars, heVars, ecVars, agVars>>
DtFinishStep == DtFinish /\ UNCHANGED <<exVars, ddVars, rqVars, skVars, hvVars, upVars, mnVars, pgVars, hsVars, heVars, ecVars, agVars>>
DtCollectStep == DtCollect /\ UNCHANGED <<exVars, ddVars, rqVars, skVars, hvVars, upVars, mnVars, pgVars, hsVars, heVars, ecVars, agVars>>
DtReturnStep == DtReturn /\ UNCHANGED <<exVars, ddVars, rqVars, skVars, hvVars, upVars, mnVars, pgVars, hsVars, heVars, ecVars, agVars>>
DtAccumulateStep == DtAccumulate /\ UNCHANGED <<exVars, ddVars, rqVars, skVars, hvVars, upVars, mnVars, pgVars, hsVars, heVars, ecVars, agVars>>
DtCheckpointStep == DtCheckpoint /\ UNCHANGED <<exVars, ddVars, rqVars, skVars, hvVars, upVars, mnVars, pgVars, hsVars, heVars, ecVars, agVars>>
DtNextPageStep == DtNextPage /\ UNCHANGED <<exVars, ddVars, rqVars, skVars, hvVars, upVars, mnVars, pgVars, hsVars, heVars, ecVars, agVars>>
NextDetail ==
    DtSubmitStep \/ DtStartStep \/ DtFinishStep \/ DtCollectStep
    \/ DtReturnStep \/ DtAccumulateStep \/ DtCheckpointStep \/ DtNextPageStep
SpecDetail == InitDetail /\ [][NextDetail]_vars

InitMain == ExIdle /\ DdIdle /\ RqIdle /\ SkIdle /\ HvIdle /\ UpIdle /\ DtIdle /\ MnInit /\ PgIdle /\ HsIdle /\ HeIdle /\ EcIdle /\ AgIdle
MnStartStep == MnStart /\ UNCHANGED <<exVars, ddVars, rqVars, skVars, hvVars, upVars, dtVars, pgVars, hsVars, heVars, ecVars, agVars>>
MnScrapeStep == MnScrape /\ UNCHANGED <<exVars, ddVars, rqVars, skVars, hvVars, upVars, dtVars, pgVars, hsVars, heVars, ecVars, agVars>>
MnUploadPlayersStep == MnUploadPlayers /\ UNCHANGED <<exVars, ddVars, rqVars, skVars, hvVars, upVars, dtVars, pgVars, hsVars, heVars, ecVars, agVars>>
MnUploadHistoryStep == MnUploadHistory /\ UNCHANGED <<exVars, ddVars, rqVars, skVars, hvVars, upVars, dtVars, pgVars, hsVars, heVars, ecVars, agVars>>
NextMain ==
    MnStartStep \/ MnScrapeStep \/ MnUploadPlayersStep \/ MnUploadHistoryStep
SpecMain == InitMain /\ [][NextMain]_vars

InitPages == ExIdle /\ DdIdle /\ RqIdle /\ SkIdle /\ HvIdle /\ UpIdle /\ DtIdle /\ MnIdle /\ PgInit /\ HsIdle /\ HeIdle /\ EcIdle /\ AgIdle
PgIterateStep == PgIterate /\ UNCHANGED <<exVars, ddVars, rqVars, skVars, hvVars, upVars, dtVars, mnVars, hsVars, heVars, ecVars, agVars>>
PgReturnStep == PgReturn /\ UNCHANGED <<exVars, ddVars, rqVars, skVars, hvVars, upVars, dtVars, mnVars, hsVars, heVars, ecVars, agVars>>
NextPages == PgIterateStep \/ PgReturnStep
SpecPages == InitPages /\ [][NextPages]_vars
\* The interpreter keeps running the loop until it ends.
SpecPagesLive == SpecPages /\ WF_vars(NextPages)

InitHistory == ExIdle /\ DdIdle /\ RqIdle /\ SkIdle /\ HvIdle /\ UpIdle /\ DtIdle /\ MnIdle /\ PgIdle /\ HsInit /\ HeIdle /\ EcIdle /\ AgIdle
HsStartFreshStep == HsStartFresh /\ UNCHANGED <<exVars, ddVars, rqVars, skVars, hvVars, upVars, dtVars, mnVars, pgVars, heVars, ecVars, agVars>>
HsStartResumeStep == HsStartResume /\ UNCHANGED <<exVars, ddVars, rqVars, skVars, hvVars, upVars, dtVars, mnVars, pgVars, heVars, ecVars, agVars>>
HsPageStep == HsPage /\ UNCHANGED <<exVars, ddVars, rqVars, skVars, hvVars, upVars, dtVars, mnVars, pgVars, heVars, ecVars, agVars>>
HsReturnStep == HsReturn /\ UNCHANGED <<exVars, ddVars, rqVars, skVars, hvVars, upVars, dtVars, mnVars, pgVars, heVars, ecVars, agVars>>
HsUploadStep == HsUpload /\ UNCHANGED <<exVars, ddVars, rqVars, skVars, hvVars, upVars, dtVars, mnVars, pgVars, heVars, ecVars, agVars>>
NextHistory ==
    HsStartFreshStep \/ HsStartResumeStep \/ HsPageStep \/ HsReturnStep
    \/ HsUploadStep
SpecHistory == InitHistory /\ [][NextHistory]_vars

InitRatingRows == ExIdle /\ DdIdle /\ RqIdle /\ SkIdle /\ HvIdle /\ UpIdle /\ DtIdle /\ MnIdle /\ PgIdle /\ HsIdle /\ HeInit /\ EcIdle /\ AgIdle
HeExtractStep == HeExtract /\ UNCHANGED <<exVars, ddVars, rqVars, skVars, hvVars, upVars, dtVars, mnVars, pgVars, hsVars, ecVars, agVars>>
NextRatingRows == HeExtractStep
SpecRatingRows == InitRatingRows /\ [][NextRatingRows]_vars

InitClassify == ExIdle /\ DdIdle /\ RqIdle /\ SkIdle /\ HvIdle /\ UpIdle /\ DtIdle /\ MnIdle /\ PgIdle /\ HsIdle /\ HeIdle /\ EcInit /\ AgIdle
EcClassifyStep == EcClassify /\ UNCHANGED <<exVars, ddVars, rqVars, skVars, hvVars, upVars, dtVars, mnVars, pgVars, hsVars, heVars, agVars>>
NextClassify == EcClassifyStep
SpecClassify == InitClassify /\ [][NextClassify]_vars

InitAge == ExIdle /\ DdIdle /\ RqIdle /\ SkIdle /\ HvIdle /\ UpIdle /\ DtIdle /\ MnIdle /\ PgIdle /\ HsIdle /\ HeIdle /\ EcIdle /\ AgInit
AgExtractStep == AgExtract /\ UNCHANGED <<exVars, ddVars, rqVars, skVars, hvVars, upVars, dtVars, mnVars, pgVars, hsVars, heVars, ecVars>>
NextAge == AgExtractStep
SpecAge == InitAge /\ [][NextAge]_vars

(***************************************************************************)
(* Properties                                                              *)
(***************************************************************************)
HasNoDuplicateKey(players) ==
    \A i, j \in 1..Len(players) :
        i # j =>
            <<players[i]["Name"], players[i]["Rating"], players[i]["Province"]>>
            # <<players[j]["Name"], players[j]["Rating"], players[j]["Province"]>>

CeilDiv(n, d) == IF n % d = 0 THEN n \div d ELSE (n \div d) + 1

\* write_to_sheet_with_retry was entered (its first statement is a clear).
SkEntered == sk_calls.clear > 0

\* The text of the last call's exception holds a phrase of the non-retryable
\* list, holds no phrase of the retryable list.
LastAppendFailed == sk_last.op = "append_rows" /\ sk_last.error # NoError
LastErrorNonRetryable ==
    LastAppendFailed /\ sk_last.error[1] \cap non_retryable # {}
LastErrorUnlisted ==
    LastAppendFailed /\ sk_last.error[1] \cap retryable_errors = {}

\* The worksheet holds the header and then the rows of k whole batches.
HoldsWholeBatches(k) ==
    sk_dest = <<HEADER>> \o SubSeq(sk_rows, 1, Min(k * sk_B, Len(sk_rows)))

KeySet(players) ==
    {<<players[i]["Name"], players[i]["Rating"], players[i]["Province"]>> :
        i \in 1..Len(players)}

\* The players of pages 1..n of the upstream, in page order.
RECURSIVE UpstreamPlayers(_)
UpstreamPlayers(n) ==
    IF n = 0 THEN <<>>
    ELSE UpstreamPlayers(n - 1)
         \o EnrichedPage(scrape_players_page("ok", UpstreamRows(n)))

\* C1 as claimed (for an upstream that never fails): a fresh run that is never
\* killed hands the sink the
\* de-duplicated players of all pages, and a run that was killed once and
\* resumed hands it a list with the same set of (Name, Rating, Province); a
\* run ends without handing anything only when there is no player at all.
C1_ResumeEquivalence ==
    hv_faults = 0 =>
    /\ \A i \in 1..Len(hv_handed) :
          /\ hv_crashes = 0 =>
                hv_handed[i] = deduplicate_players(UpstreamPlayers(hv_N))
          /\ hv_crashes = 1 =>
                KeySet(hv_handed[i]) = KeySet(UpstreamPlayers(hv_N))
    /\ (hv_pc = "exited" /\ hv_crashes <= 1 /\ hv_handed = <<>>) => hv_N = 0

\* C2 as claimed: the last_page values passed to save_progress_state during
\* one scrape are strictly increasing.
C2_StrictlyIncreasing ==
    \A i, j \in 1..Len(hv_ckpts) : i < j => hv_ckpts[i] < hv_ckpts[j]

\* C2 as amended: the values never decrease; the periodic ones are strictly
\* increasing; the final one is the last completed page and repeats the last
\* periodic one exactly when that page is a multiple of 5.
C2_NonDecreasing ==
    /\ \A i, j \in 1..Len(hv_ckpts) : i < j => hv_ckpts[i] <= hv_ckpts[j]
    /\ \A i, j \in 1..(Len(hv_ckpts) - 1) : i < j => hv_ckpts[i] < hv_ckpts[j]
    /\ hv_pc \in {"loop", "save_progress", "save_snapshot", "final_progress"}
          => \A i, j \in 1..Len(hv_ckpts) : i < j => hv_ckpts[i] < hv_ckpts[j]
    /\ hv_pc \in {"final_snapshot", "returned"} =>
          /\ Len(hv_ckpts) >= 1
          /\ hv_ckpts[Len(hv_ckpts)] = hv_page - 1
          /\ Len(hv_ckpts) >= 2 =>
                (hv_ckpts[Len(hv_ckpts) - 1] = hv_ckpts[Len(hv_ckpts)]
                    <=> (hv_page - 1) % 5 = 0)

C2_Witness ==
    hv_pc = "returned" /\ hv_ckpts = <<5, 10, 10>>

\* C3: every record the extraction stage returns has the five required fields
\* non-empty, has a Gender field, and has a Rating that parses as an integer
\* strictly below MAX_RATING.
C3_ValidityGate ==
    ex_pc = "done" =>
        \A i \in 1..Len(ex_out) :
            /\ \A f \in {"Name", "Province", "Rating", "Period", "Last Played"} :
                  f \in DOMAIN ex_out[i] /\ ex_out[i][f] # <<>>
            /\ "Gender" \in DOMAIN ex_out[i]
            /\ IntParses(ex_out[i]["Rating"])
            /\ IntValue(ex_out[i]["Rating"]) < 5000

\* C4: de-duplicating a de-duplicated list changes nothing, and a
\* de-duplicated list has no two elements with the same (Name, Rating,
\* Province).
C4_DedupIdempotent ==
    /\ dd_pc \in {"once", "twice"} => HasNoDuplicateKey(dd_once)
    /\ dd_pc = "twice" => dd_twice = dd_once

C4_Witness ==
    dd_pc = "twice" /\ Len(dd_once) >= 2 /\ Len(dd_once) < Len(dd_in)

\* C5: the fetcher never makes more than 3 GETs and never returns without a
\* response; when every GET fails with a transport error it makes exactly 3
\* and then raises the failure of the last one.
C5_FetcherRetryCeiling ==
    /\ rq_calls <= 3
    /\ rq_pc = "returned" => rq_result # None /\ rq_result[1] = "response"
    /\ (rq_pc \in {"returned", "raised"}
           /\ \A i \in DOMAIN rq_env : rq_env[i] \in {"Timeout", "HTTPError"})
          => /\ rq_pc = "raised"
             /\ rq_calls = 3
             /\ rq_result = <<rq_env[3], 3>>

C5_Witness ==
    /\ rq_pc = "raised" /\ rq_calls = 3
    /\ \A i \in DOMAIN rq_env : rq_env[i] \in {"Timeout", "HTTPError"}

\* C6: whatever the worksheet does there are at most 3 session attempts with
\* at most 2 append_rows calls on a batch; when clear and header succeed and
\* every append_rows fails with a retryable error the upload makes exactly 3
\* session attempts of exactly 2 append_rows calls, all on the first batch,
\* and returns False.
C6_SinkRetryCeiling ==
    /\ Len(sk_sess) <= 3 /\ sk_session <= 2 /\ sk_battempt <= 2
    /\ \A s \in 1..Len(sk_sess) : sk_sess[s] <= 2
    /\ (sk_env = "appends_fail" /\ sk_pc = "done" /\ SkEntered)
          => /\ sk_result = "False"
             /\ sk_sess = <<2, 2, 2>>
             /\ sk_calls = [clear |-> 3, header |-> 3, append |-> 6]
             /\ sk_batch = 0

C6_Witness ==
    /\ sk_env = "appends_fail" /\ sk_pc = "done" /\ sk_result = "False"
    /\ sk_calls.append = 6

\* C7: with a worksheet that never fails, the upload of n rows clears once,
\* then writes the header once, then makes ceil(n/B) append_rows calls, the
\* k-th carrying the k-th consecutive slice of B rows (the last one what is
\* left), and returns True.
C7_FaultFreeBatching ==
    (sk_env = "reliable" /\ SkEntered) =>
        /\ sk_calls.clear = 1 /\ sk_calls.header <= 1
        /\ sk_calls.append > 0 => sk_calls.header = 1
        /\ sk_last.op = "append_rows" =>
              sk_last.arg = SubSeq(sk_rows, (sk_calls.append - 1) * sk_B + 1,
                                   Min(sk_calls.append * sk_B, Len(sk_rows)))
        /\ sk_calls.header = 1 => HoldsWholeBatches(sk_calls.append)
        /\ sk_pc = "done" =>
              /\ sk_result = "True"
              /\ sk_calls.header = 1
              /\ sk_calls.append = CeilDiv(Len(sk_rows), sk_B)
              /\ sk_dest = <<HEADER>> \o sk_rows

C7_Witness ==
    /\ sk_env = "reliable" /\ sk_pc = "done" /\ sk_result = "True"
    /\ sk_calls.append >= 2 /\ Len(sk_last.arg) < sk_B

\* C8 as claimed: a returned False comes only after all 3 session attempts
\* were used, and every other return is True with every batch accepted.
C8_FalseOnlyAfterExhaustion ==
    (sk_pc = "done" /\ SkEntered /\ sk_result \in {"True", "False"}) =>
        IF Len(sk_sess) = 3 /\ LastAppendFailed
        THEN sk_result = "False"
        ELSE sk_result = "True" /\ sk_dest = <<HEADER>> \o sk_rows

\* C8 as amended: a returned False comes only after an append_rows failed
\* with an error not classified retryable, or after the second append_rows
\* failure on a batch of the third session attempt; a returned True comes
\* only with every batch accepted.
C8_FalseOnTerminalOrExhaustion ==
    (sk_pc = "done" /\ SkEntered) =>
        /\ sk_result = "False" =>
              /\ LastAppendFailed
              /\ \/ LastErrorNonRetryable
                 \/ LastErrorUnlisted
                 \/ Len(sk_sess) = 3 /\ sk_battempt = 2
        /\ sk_result = "True" =>
              /\ sk_dest = <<HEADER>> \o sk_rows
              /\ sk_batch = CeilDiv(Len(sk_rows), sk_B)
              /\ sk_last = Called("append_rows",
                                  batch_of(sk_rows, sk_B, sk_batch - 1), NoError)

C8_Witness ==
    /\ sk_pc = "done" /\ sk_result = "False" /\ Len(sk_sess) = 1
    /\ LastErrorNonRetryable /\ sk_calls.append = 1

\* C9: once an append_rows call has failed with an error whose text holds a
\* non-retryable phrase, no further clear, append_row or append_rows call is
\* made, no batch or session retry is started, and the next step returns
\* False.
C9_TerminalFaultAborts ==
    [][ /\ LastErrorNonRetryable' => sk_pc' \in {"except", "done"}
        /\ LastErrorNonRetryable =>
              /\ sk_calls' = sk_calls
              /\ sk_dest' = sk_dest
              /\ sk_session' = sk_session
              /\ sk_battempt' = sk_battempt
              /\ sk_pc' = "done"
              /\ sk_result' = "False" ]_vars

C9_Witness ==
    /\ LastErrorNonRetryable /\ sk_pc = "done" /\ sk_result = "False"
    /\ sk_last.error[1] \cap retryable_errors # {}
    /\ sk_batch >= 1

\* C10: while batches are sent the worksheet holds the header followed by
\* the rows of the batches accepted in the current session attempt, each
\* session attempt having been preceded by its own clear and header write and
\* started at the first batch; it holds header and all rows, once and in
\* order, when True is returned, and header and whole batches when False is.
C10_CleanRestart ==
    /\ sk_pc \in {"append", "except"} =>
          /\ HoldsWholeBatches(sk_batch)
          /\ sk_batch < CeilDiv(Len(sk_rows), sk_B)
          /\ sk_calls.clear = sk_session + 1
          /\ sk_calls.header = sk_session + 1
          /\ Len(sk_sess) = sk_session + 1
    /\ sk_result = "True" => sk_dest = <<HEADER>> \o sk_rows
    /\ (sk_result = "False" /\ SkEntered) => HoldsWholeBatches(sk_batch)

C10_Witness ==
    /\ sk_result = "True" /\ sk_session = 2 /\ sk_batch >= 2
    /\ sk_sess[1] = 1 /\ sk_sess[2] = 1

\* The positions of a list that hold the first record of their key.
FirstIndices(players) ==
    {i \in 1..Len(players) :
        \A j \in 1..(i - 1) : player_key(players[j]) # player_key(players[i])}

\* C20: the output of deduplicate_players is the input restricted to the
\* positions holding the first record of each (Name, Rating, Province), in
\* input order; every key of the input is in the output exactly once, and the
\* number of records dropped is len(input) - len(output).
C20_DedupKeepsFirst ==
    dd_pc \in {"once", "twice"} =>
        LET idx == FirstIndices(dd_in)
        IN  /\ Len(dd_once) = Cardinality(idx)
            /\ \A i \in idx :
                  dd_once[Cardinality({j \in idx : j <= i})] = dd_in[i]
            /\ \A key \in KeySet(dd_in) :
                  Cardinality({k \in 1..Len(dd_once) :
                                  player_key(dd_once[k]) = key}) = 1
            /\ KeySet(dd_once) = KeySet(dd_in)
            /\ Len(dd_in) - Len(dd_once)
                  = Cardinality((1..Len(dd_in)) \ idx)

\* A later record with the key of an earlier one, differing from it in Age,
\* was dropped between two records that were kept.
C20_Witness ==
    /\ dd_pc = "once" /\ Len(dd_in) = 3 /\ Len(dd_once) = 2
    /\ player_key(dd_in[1]) = player_key(dd_in[2])
    /\ dd_in[1] # dd_in[2]
    /\ dd_once = <<dd_in[1], dd_in[3]>>

\* C11 as claimed: the upload_state of the progress file records how many
\* batches of the players upload the worksheet holds, and an upload started
\* again after a failed one sends no batch that the worksheet already held
\* when the earlier upload failed.
C11_UploadRetryResumes ==
    /\ (sk_pc \in {"append", "except", "done"} /\ sk_calls.header > 0) =>
          /\ "players" \in DOMAIN up_upload_state
          /\ up_upload_state["players"] = sk_batch
    /\ (up_run > 1 /\ sk_last.op = "append_rows") =>
          \A k \in 0..(up_sent - 1) :
              sk_last.arg # batch_of(sk_rows, sk_B, k)

\* C12 as claimed: when the listing fetch of a page fails (the fetcher out of
\* retries, or the extraction raising), the loop goes to its except handler
\* and the process ends with the failure; it never goes on as if the pages
\* had run out.
C12_FetchFailureFails ==
    hv_status = "fetch_error" =>
        \/ hv_pc \in {"except_progress", "except_snapshot"}
        \/ hv_pc = "exited" /\ hv_exit = 1 /\ hv_raised > 0

\* The latest checkpoint and snapshot of the session of the running process.
SessionCheckpoint ==
    IF ProgressFile(hv_session_id) \in DOMAIN hv_files
    THEN hv_files[ProgressFile(hv_session_id)].last_completed_page ELSE 0
SessionSnapshot ==
    IF PlayersFile(hv_session_id) \in DOMAIN hv_files
    THEN hv_files[PlayersFile(hv_session_id)] ELSE <<>>

\* The page a record of the upstream of the harvest came from.
PageOf(player) == IntValue(player["Period"])
PagesIn(players) == {PageOf(players[i]) : i \in 1..Len(players)}

\* C13: when the loop raises while on page p, the progress file then holds
\* last_completed_page = p - 1 and the players file holds all_players, both
\* written before the raise; the process started with --resume after it
\* starts at page p, every page before p has been appended by some process,
\* and no page of the snapshot it loaded is at or after p.
C13_RaiseCheckpoints ==
    /\ (hv_pc = "exited" /\ hv_raised > 0) =>
          /\ hv_exit = 1
          /\ SessionCheckpoint = hv_raised - 1
          /\ PlayersFile(hv_session_id) \in DOMAIN hv_files
          /\ SessionSnapshot = hv_all_players
          /\ hv_ckpts # <<>> /\ hv_ckpts[Len(hv_ckpts)] = hv_raised - 1
    /\ (hv_mode = "resume" /\ hv_raised > 0 /\ HvRunning) =>
          /\ hv_resume_from = hv_raised
          /\ hv_page >= hv_raised
          /\ (1..(hv_resume_from - 1)) \subseteq DOMAIN hv_done
          /\ \A q \in PagesIn(hv_players) : q < hv_resume_from

C13_Witness ==
    /\ hv_mode = "resume" /\ hv_raised = 7 /\ hv_pc = "returned"
    /\ hv_page > hv_N /\ hv_N >= 8 /\ hv_crashes = 0
    /\ PagesIn(hv_players) = 1..6

\* The pages the process knows as fully processed in its session.
PagesProcessed ==
    IF hv_pc \in {"save_progress", "save_snapshot"} THEN hv_page
    ELSE hv_page - 1

\* The processed pages that the checkpoint counts and the snapshot holds the
\* record of.
PagesCovered ==
    {p \in 1..Min(SessionCheckpoint, PagesProcessed) :
        \A i \in 1..Len(scrape_players_page("ok", UpstreamRows(p))) :
            player_key(scrape_players_page("ok", UpstreamRows(p))[i])
                \in KeySet(SessionSnapshot)}

\* C14 as claimed: wherever a process is interrupted during the scrape, at
\* most save_progress_every - 1 of the pages processed so far are not covered
\* by the checkpoint and the snapshot on disk.
C14_BoundedLoss ==
    hv_pc \in {"loop", "save_progress", "save_snapshot", "except_progress",
               "except_snapshot", "final_progress", "final_snapshot",
               "returned"} =>
        PagesProcessed - Cardinality(PagesCovered) <= save_progress_every - 1

\* C19 as claimed: no list handed to write_players_to_sheet holds two records
\* with the same (Name, Rating, Province).
C19_HandedDeduplicated ==
    \A i \in 1..Len(hv_handed) : HasNoDuplicateKey(hv_handed[i])

\* C15: once fetch_multiple_players_data has returned, and so when the
\* players of the page are appended, when a checkpoint covering the page is
\* written and when the next listing page is fetched, no worker is running
\* and every submitted item has a finished future that the calling thread has
\* handled; a checkpoint of the page is written only after the append.
C15_JoinAllBarrier ==
    /\ dt_pc \in {"returned", "accumulated", "page_done", "next_fetch"} =>
          /\ dt_running = {}
          /\ dt_finished = AllItems
          /\ dt_collected = AllItems
    /\ dt_ckpt => dt_pc \in {"page_done", "next_fetch"}
    /\ dt_collected \subseteq dt_finished
    /\ Cardinality(dt_running) <= dt_workers

\* Two items on two workers, one of them failing, and the page checkpointed.
C15_Witness ==
    /\ dt_pc = "next_fetch" /\ dt_ckpt
    /\ Len(dt_items) = 2 /\ dt_workers = 2
    /\ dt_items[1].outcome = "fetch_fail" /\ dt_items[2].outcome = "ok"

\* The items whose detail page failed: the fetch, or a parse that was run.
DtFailed(i) ==
    \/ dt_items[i].outcome = "fetch_fail"
    \/ dt_items[i].outcome = "history_fail" /\ dt_fetch_history

\* C16 as claimed: fetch_multiple_players_data returns with an entry in
\* age_results for the name of every submitted item; a failed item has no
\* age (None) and no row in the history; every other item has the age and
\* the history rows of its detail page, whatever happened to the others.
C16_FaultIsolation ==
    dt_pc = "returned" =>
        \A i \in AllItems :
            /\ dt_items[i].name \in DOMAIN dt_age_results
            /\ DtFailed(i) =>
                  /\ dt_age_results[dt_items[i].name] = None
                  /\ \A k \in 1..Len(dt_all_history) :
                        dt_all_history[k] # HistoryOnPage(dt_items, i)[1]
            /\ ~DtFailed(i) =>
                  /\ dt_age_results[dt_items[i].name]
                        = fetch_player_page_data(dt_items, i, dt_fetch_history)[1]
                  /\ dt_fetch_history =>
                        \E k \in 1..Len(dt_all_history) :
                            dt_all_history[k] = HistoryOnPage(dt_items, i)[1]

\* C17 as claimed: a file of a session is removed only when the players and
\* the history collected for that session have been uploaded, and no file is
\* removed by a process in which an upload failed; so a removed history file
\* belongs to a session whose history a sheet has received.
C17_CleanupOnlyAfterFullUpload ==
    /\ \A n \in mn_deleted :
          /\ n[2] \in mn_uploaded.players
          /\ n[1] = "history" => n[2] \in mn_uploaded.history
    /\ (mn_pc = "exited" /\ mn_failed \cap {"players", "history"} # {}) =>
          \A n \in DOMAIN mn_files : n[2] = mn_session_id => n \notin mn_deleted

\* C18 as claimed: a process exits with a non-zero status exactly when its
\* scrape or one of its uploads failed.
C18_ExitStatus ==
    mn_pc = "exited" => (mn_exit # 0 <=> mn_failed # {})

\* C21 as claimed: when max_pages is supplied, no page with a number greater
\* than max_pages is fetched, whatever the later pages hold.
C21_MaxPagesRespected ==
    pg_max_pages # <<>> =>
        \A i \in 1..Len(pg_fetched) : pg_fetched[i].page <= pg_max_pages[1]

PgFlatten(fetched) ==
    LET RECURSIVE cat(_)
        cat(i) == IF i = 0 THEN <<>> ELSE cat(i - 1) \o fetched[i].players
    IN  cat(Len(fetched))

PgOrdered ==
    /\ \A i \in 1..Len(pg_fetched) :
          pg_fetched[i].page = pg_resume_from_page + i - 1
    /\ \A i \in 1..Len(pg_fetched) :
          pg_fetched[i].players = <<>> => i = Len(pg_fetched)
    /\ pg_pc = "DONE" => pg_result = PgFlatten(pg_fetched)

PgEmptyPageSeen ==
    \E i \in 1..Len(pg_fetched) : pg_fetched[i].players = <<>>

\* C24: pages are fetched one at a time, consecutively from resume_from_page;
\* no page is fetched after one that came back with no valid record; the
\* loop ends, and once a page has come back empty it ends in DONE, returning
\* the records of the earlier pages in page order.
C24_NaturalTermination ==
    /\ []PgOrdered
    /\ <>(pg_pc \in {"DONE", "raised"})
    /\ (PgEmptyPageSeen ~> pg_pc = "DONE")

C24_Witness ==
    /\ pg_pc = "DONE"
    /\ pg_resume_from_page = 2
    /\ pg_max_pages = <<>>
    /\ Len(pg_upstream) = 3
    /\ Len(pg_fetched) = 3
    /\ pg_result = <<<<2, 1>>, <<2, 2>>, <<3, 1>>>>

PageKeys(p) ==
    KeySet(scrape_players_page("ok", UpstreamRows(p)))

\* C22 as claimed: whenever the progress file of a session records
\* last_completed_page = p, the players file of that session holds the
\* records of every page 1..p.
C22_CheckpointSnapshotConsistent ==
    \A n \in DOMAIN hv_files :
        n[1] = "progress" =>
            \A p \in 1..hv_files[n].last_completed_page :
                /\ PlayersFile(n[2]) \in DOMAIN hv_files
                /\ PageKeys(p) \subseteq KeySet(hv_files[PlayersFile(n[2])])

\* C23 as claimed: once the ages of a page are set, every record has the age
\* found on its own detail page, or the empty text when none was found or
\* the fetch failed, whatever the order the workers finished in and also
\* when two records of the page have the same Name.
C23_OwnAge ==
    dt_pc \in {"accumulated", "page_done", "next_fetch"} =>
        \A i \in AllItems :
            dt_page_players[i]["Age"] =
                IF fetch_player_page_data(dt_items, i, dt_fetch_history)[1] = None
                THEN <<>>
                ELSE fetch_player_page_data(dt_items, i, dt_fetch_history)[1]

\* C27: at every moment no more detail fetches are running than the pool has
\* workers, no submitted item is fetched twice, and when the call returns
\* every submitted item has been fetched exactly once.
C27_BoundedFanOut ==
    /\ Cardinality(dt_running) <= dt_workers
    /\ \A i \in AllItems : dt_fetches[i] <= 1
    /\ dt_pc \in {"returned", "accumulated", "page_done", "next_fetch"} =>
          \A i \in AllItems : dt_fetches[i] = 1

\* More items than workers: the pool of one worker is busy with one item
\* while the other waits, and both were fetched when the call returned.
C27_Witness ==
    /\ dt_pc = "returned"
    /\ dt_workers = 1 /\ Len(dt_items) = 2
    /\ dt_fetches = <<1, 1>>

\* The players of page p of the upstream as the loop appends them.
PagePlayers(p) ==
    EnrichedPage(scrape_players_page("ok", UpstreamRows(p)))

Records(players) == {players[i] : i \in 1..Len(players)}

\* A snapshot holds whole pages: every record in it is a record of its page
\* with the age set, and a page that has a record in it has all its records
\* there, but for those de-duplication removed in favour of a record of
\* another page with the same key.
WholePages(players) ==
    LET have == Records(players)
    IN  /\ have \subseteq UNION {Records(hv_done[p]) : p \in DOMAIN hv_done}
        /\ \A player \in have : player["Age"] # <<>>
        /\ \A p \in DOMAIN hv_done :
              \/ Records(hv_done[p]) \cap have = {}
              \/ \A player \in Records(hv_done[p]) \ have :
                    \E other \in have \ Records(hv_done[p]) :
                        player_key(other) = player_key(player)

C26_HistoryCarriesPlayerFields ==
    \A h \in 1..Len(hs_handed) :
        \A i \in 1..Len(hs_handed[h].rows) :
            \E j \in 1..Len(hs_handed[h].players) :
                /\ hs_handed[h].players[j]["Name"] = hs_handed[h].rows[i][1]
                /\ hs_handed[h].players[j]["Gender"] = hs_handed[h].rows[i][5]
                /\ hs_handed[h].players[j]["Province"] = hs_handed[h].rows[i][6]
\* The conditions the claim lists, on the stripped cells of a row.
RowQualifies(row) ==
    /\ Len(row) >= 5
    /\ isdigit(strip(row[1]))
    /\ Len(strip(row[2])) > 5
    /\ isdigit(strip(row[5])) /\ IntValue(strip(row[5])) < MAX_RATING
    /\ IntParses(after_last_separator(strip(row[2])))
    /\ IntValue(after_last_separator(strip(row[2]))) > 2010

\* C28 as claimed: a row of a table (of two rows or more) with at least 5
\* columns yields a history entry exactly when its period id is all digits,
\* its date is longer than 5 characters, its rating is all digits and below
\* MAX_RATING, and the year after the last ', ' of the date is above 2010.
C28_HistoryInclusion ==
    (he_pc = "done" /\ Len(he_rows) >= 2) =>
        \A n \in 1..Len(he_rows) :
            RowQualifies(he_rows[n])
            <=> \E k \in 1..Len(he_out.history) : he_out.history[k].row = n

\* A record that passes validation: the required fields are not blank, the
\* Gender field is there, and the rating is an integer below the maximum.
RecordValid(player) ==
    /\ \A f \in {"Name", "Province", "Rating", "Period", "Last Played"} :
          f \in DOMAIN player /\ strip(player[f]) # <<>>
    /\ "Gender" \in DOMAIN player
    /\ IntParses(player["Rating"])
    /\ IntValue(player["Rating"]) < 5000

RowsKept(rows) ==
    SelectSeq(rows, LAMBDA cols : Len(cols) >= 7 /\ RecordValid(player_of_row(cols)))

\* C29 as claimed: for a page that was fetched, the output is exactly the
\* records of the rows after the header that have at least 7 columns and
\* pass validation, in row order, whatever the other rows are.
C29_ExtractionCompleteness ==
    (ex_pc = "done" /\ ex_status = "ok" /\ ex_rows # <<>>) =>
        ex_out = [i \in 1..Len(RowsKept(Tail(ex_rows))) |->
                     player_of_row(RowsKept(Tail(ex_rows))[i])]


\* C30 as claimed: under every fault of the worksheet write_to_sheet_with_retry
\* ends by returning True or False; no exception of clear, append_row or
\* append_rows leaves it, the clear and the header write before the first
\* session and before a session-level retry included.
C30_BooleanContract ==
    sk_pc = "done" => sk_result \in {"True", "False"}

\* The escapes separated by where the failing call stands: before the first
\* session (line 737 or 738) and in the handler of a session (line 782 or 783).
C30_EscapeBeforeFirstSession ==
    ~(sk_pc = "done" /\ sk_result = "raised" /\ sk_session = 0)

C30_EscapeBeforeRetry ==
    ~(sk_pc = "done" /\ sk_result = "raised" /\ sk_session > 0)

\* What remains: an exception of append_rows never leaves the function.
C30_AppendFaultsContained ==
    (sk_pc = "done" /\ sk_result = "raised") => sk_last.op \in {"clear", "append_row"}


\* The attempts of a call of which the first n were made: the index of the
\* first successful one, 0 when none of them succeeds.
FirstOk(n) ==
    IF \E i \in 1..n : rq_env[i] = "ok"
    THEN CHOOSE i \in 1..n : rq_env[i] = "ok" /\ \A j \in 1..(i - 1) : rq_env[j] # "ok"
    ELSE 0

\* C31: make_request_with_retries returns the response of the first
\* successful attempt among the first 3 and makes no attempt after it; the
\* sleeps are 1 s, 2 s, ... (2^attempt), one after every failed attempt that
\* is followed by another attempt, none after the last failed attempt and
\* none after a success.
C31_SuccessPathAndBackoff ==
    /\ rq_pc \in {"get", "sleep", "returned", "raised"} =>
          /\ \A i \in 1..Len(rq_sleeps) : rq_sleeps[i] = 2 ^ (i - 1)
          /\ Len(rq_sleeps) = IF rq_pc = "get" THEN rq_calls ELSE rq_calls - 1
          /\ \A i \in 1..(rq_calls - 1) : rq_env[i] # "ok"
    /\ rq_pc = "sleep" => rq_calls < MAX_RETRIES /\ rq_env[rq_calls] # "ok"
    /\ (rq_pc \in {"returned", "raised"} /\ FirstOk(MAX_RETRIES) # 0
           /\ \A i \in 1..(FirstOk(MAX_RETRIES) - 1) : rq_env[i] \in RequestExceptions)
          => /\ rq_pc = "returned"
             /\ rq_calls = FirstOk(MAX_RETRIES)
             /\ rq_result = <<"response", FirstOk(MAX_RETRIES)>>
             /\ Len(rq_sleeps) = FirstOk(MAX_RETRIES) - 1

\* A success on the third attempt, after two failures and the sleeps of 1 s
\* and 2 s.
C31_Witness ==
    /\ rq_pc = "returned" /\ rq_calls = 3 /\ rq_result = <<"response", 3>>
    /\ rq_sleeps = <<1, 2>>


\* C32: write_players_to_sheet and write_history_to_sheet called with an
\* empty list return False and perform no clear, no header write and no
\* append: the worksheet holds what it held before the call.
C32_EmptyInputLeavesSinkUntouched ==
    (sk_rows = <<>> /\ sk_pc \notin {"idle", "call"}) =>
        /\ sk_pc = "done"
        /\ sk_result = "False"
        /\ sk_calls = [clear |-> 0, header |-> 0, append |-> 0]
        /\ sk_last.op = "none"
        /\ sk_dest = <<"stale">>

\* write_history_to_sheet has returned from a call with an empty list on a
\* worksheet that could have failed any call.
C32_Witness ==
    /\ sk_fn = "history" /\ sk_rows = <<>> /\ sk_env = "any"
    /\ sk_pc = "done" /\ sk_result = "False"

\* The same for write_players_to_sheet.
C32_PlayersReached ==
    ~(sk_fn = "players" /\ sk_rows = <<>> /\ sk_pc = "done" /\ sk_result = "False")


\* C33: the checkpoint of a page is written by the calling thread only, in
\* the loop body after fetch_multiple_players_data has returned, at a moment
\* when no worker is running fetch_single_player; a step of a worker (a
\* start or an end of fetch_single_player) writes nothing. The writes are
\* steps of one thread, so no two of them overlap.
C33_SingleWriter ==
    [][ /\ (dt_ckpt' # dt_ckpt) =>
              /\ dt_pc = "accumulated" /\ dt_pc' = "page_done"
              /\ dt_running = {} /\ dt_running' = {}
              /\ dt_finished = AllItems
        /\ (dt_running' # dt_running \/ dt_finished' # dt_finished) =>
              dt_ckpt' = dt_ckpt
      ]_vars

\* The thread is at the checkpoint statement only with every worker done.
C33_WriterAlone ==
    dt_pc \in {"returned", "accumulated"} => dt_running = {} /\ dt_finished = AllItems

\* The checkpoint of a page was written after two items were fetched by a
\* pool of two workers.
C33_Witness ==
    /\ dt_ckpt /\ dt_pc = "page_done" /\ dt_workers = 2 /\ Len(dt_items) = 2
    /\ \A i \in AllItems : dt_fetches[i] = 1


\* Whether the lowercased text of the exception holds a phrase of a list.
HasPhrase(text, list) == \E p \in list : Contains(lower(text), PhraseText(p))

\* C34: handle_google_api_error returns False for a text that contains a
\* non-retryable phrase, a retryable phrase beside it or not; it returns True
\* exactly for a text with a retryable phrase and no non-retryable one; a
\* text with a phrase of neither list gets False. Phrases are looked for in
\* the lowercased text, anywhere in it.
C34_ErrorClassification ==
    ec_pc = "done" =>
        /\ HasPhrase(ec_error, non_retryable) => ec_result = "False"
        /\ ec_result = "True" <=>
              (HasPhrase(ec_error, retryable_errors) /\ ~HasPhrase(ec_error, non_retryable))
        /\ (~HasPhrase(ec_error, retryable_errors) /\ ~HasPhrase(ec_error, non_retryable))
              => ec_result = "False"

\* A text with a phrase of each list, the non-retryable one in capitals, was
\* classified.
C34_Witness ==
    /\ ec_pc = "done" /\ ec_result = "False"
    /\ Contains(ec_error, <<"5", "0", "3">>)
    /\ Contains(ec_error, <<"N", "o", "t", " ", "F", "o", "u", "n", "d">>)


\* C35: when the age is made from a 4-digit birth year Y (the group of
\* `Born:` or `Year of Birth:`) it is current_year - Y, so that "Born: 1990"
\* read in 2025 gives "35"; when it is made from an ISO date yyyy-mm-dd (the
\* group of `DOB:` or `Date of Birth:`) it is current_year - yyyy, less 1
\* exactly when the current (month, day) is earlier than the (month, day) of
\* birth.
C35_AgeConversion ==
    ag_pc = "done" =>
        LET g == ag_match.group
        IN  /\ ag_match.pattern \in {4, 5} =>
                  /\ Len(g) = 4
                  /\ ag_result = str_int(ag_now.year - DecimalValue(g))
            /\ ag_match.pattern \in {2, 3} =>
                  LET yyyy == DecimalValue(SubSeq(g, 1, 4))
                      mmdd == 100 * DecimalValue(SubSeq(g, 6, 7))
                                 + DecimalValue(SubSeq(g, 9, 10))
                      today == 100 * ag_now.month + ag_now.day
                  IN  ag_result = str_int(ag_now.year - yyyy
                                              - (IF today < mmdd THEN 1 ELSE 0))
            /\ (ag_text = <<"B", "o", "r", "n", ":", " ", "1", "9", "9", "0">>
                   /\ ag_now.year = 2025) => ag_result = <<"3", "5">>

\* An ISO date of birth read on the birthday itself: no borrow, age 35.
C35_Witness ==
    /\ ag_pc = "done" /\ ag_match.pattern = 2
    /\ ag_match.group = <<"1", "9", "9", "0", "-", "0", "6", "-", "1", "5">>
    /\ ag_now = [year |-> 2025, month |-> 6, day |-> 15]
    /\ ag_result = <<"3", "5">>

\* The states the cases of the conversion are met in: a birth year, a date
\* read the day before the birthday, and a date that is not one.
C35_YearReached ==
    ~(ag_pc = "done" /\ ag_match.pattern = 4 /\ ag_now.year = 2025
        /\ ag_text = <<"B", "o", "r", "n", ":", " ", "1", "9", "9", "0">>
        /\ ag_result = <<"3", "5">>)

C35_BorrowReached ==
    ~(ag_pc = "done" /\ ag_match.pattern = 2
        /\ ag_now = [year |-> 2025, month |-> 6, day |-> 14]
        /\ ag_result = <<"3", "4">>)

C35_InvalidDateSkipped ==
    ~(ag_pc = "done" /\ ag_result = None
        /\ ag_text = <<"D", "O", "B", ":", " ", "1", "9", "9", "0", "-", "1", "3", "-", "0", "1">>)

====
